---- MODULE Spec2Model ----
(***************************************************************************)
(* Forest Pests: the alien formation (sweep, edge drop, dive attacks),     *)
(* the hex-cell shields and the collision system.                          *)
(*                                                                         *)
(* Units.  Lengths of the formation are whole world units.  Time is        *)
(* counted in ticks of 1/TicksPerSecond second, so that a frame's dive     *)
(* travel (60 u/s) and return travel (80 u/s) are whole units.  Progress   *)
(* values (0..1 in the code) are fixed-point numbers with PUnit = 1.0.     *)
(* Shield and collision geometry is in tenths of a unit, because the hex   *)
(* lattice pitch (5.4, 4.8) and the projectile radii (0.5, 0.7) are        *)
(* multiples of 0.1.                                                       *)
(***************************************************************************)
EXTENDS Integers, Sequences, FiniteSets, TLC

\* ---------------------------------------------------------------- bounds
Columns     == 2     \* formation columns explored (GameConfig.aliens.columns is 11)
DiveMaxTicks == 152   \* ticks of dive scheduling explored per wave
DescentMaxDrops == 22 \* edge drops after which the descent stops
SweepMaxDrops == 1   \* edge drops after which the sweep exploration stops
IntervalMaxDrops == 1  \* edge drops after which the interval exploration stops
WaveMax == 101       \* last wave the wave-scaling exploration enters
GameMaxTicks == 260  \* play time per wave after which the game exploration stops
LastStandMaxTicks == 36  \* play time after which the last-stand exploration stops
VolleyMaxTicks == 16     \* play time after which the volley exploration stops
ProjectilesMaxTicks == 24  \* play time per wave after which the projectile exploration stops
ScoreMaxWave == 2        \* the last wave played in the score exploration
StepMaxDrops == 1        \* drops of the formation after which the step exploration stops
ReturnStartTicks == 104  \* update time up to which the return exploration lets dives start
ReturnMaxTicks == 400    \* update time after which the return exploration stops
LandingMaxTicks == 3600  \* play time after which the landing exploration stops
InvasionMaxTicks == 24000  \* game clock at which the exploration of the invasion stops
ShootMaxTicks == 120 \* ticks of dive scheduling explored while shots are fired
StartDiveMaxTicks == 24 \* ticks explored around direct startDive calls
StrafeMaxTicks == 300 \* ticks of play explored while divers strafe
DangerMaxTicks == 6 \* ticks of play explored around the danger line
GameOverMaxTicks == 24 \* ticks of play explored on the last life
EscortMaxTicks == 240 \* ticks of dive scheduling explored while the escort is shot

\* ------------------------------------------------------------ GameConfig
Rows            == 5
SpacingX        == 16
SpacingZ        == 36
StartDistance   == 400
StartHeight     == 60
DropDistance    == 15
BaseSpeed       == 4
EdgeMargin      == 111
PlayerZ         == -50
BaseMoveInterval       == 55    \* frames at 60 fps
SpeedMultiplierMinTenths == 3   \* 0.3
FramesPerSecond == 60           \* "/ 60; // Convert to seconds"

\* ----------------------------------------------------------- DIVE_CONFIG
DiveSpeed       == 60
ReturnSpeed     == 80
HeightBoost     == 40
WaveAmplitude   == 30
WaveFrequency   == 3
MaxConcurrentDivers     == 5
MaxConcurrentDiversBase == 1
RetreatZ        == -200
FirstDiveSeconds == 5
MinDiveIntervalTenths     == 30   \* 3 s
MaxDiveIntervalTenths     == 80   \* 8 s
MinDiveIntervalLateTenths == 8    \* 0.8 s
MaxDiveIntervalLateTenths == 20   \* 2 s
DiveGroundY     == 10             \* "startPos.y + (10 - startPos.y) * t"
WaveSpan        == 99             \* "(this.currentWave - 1) / 99"

\* ------------------------------------------------------------ arithmetic
TicksPerSecond == 20
PUnit          == 100000

Max(a, b) == IF a >= b THEN a ELSE b
Min(a, b) == IF a <= b THEN a ELSE b
Abs(a)    == IF a >= 0 THEN a ELSE -a

\* ceil(a / b) for b > 0
CeilDiv(a, b) == -((-a) \div b)

RECURSIVE IsqrtIter(_, _, _)
IsqrtIter(n, lo, hi) ==
  IF lo >= hi THEN lo
  ELSE LET mid == (lo + hi + 1) \div 2
       IN IF mid * mid <= n THEN IsqrtIter(n, mid, hi) ELSE IsqrtIter(n, lo, mid - 1)

\* floor(sqrt(n)), n < 2^30
Isqrt(n) == IsqrtIter(n, 0, 32767)

\* 1000 * sin(pi * t) for t = tm / 1000 in [0, 1], by Bhaskara's rational
\* approximation 16 t (1 - t) / (5 - 4 t (1 - t)) (absolute error < 0.002)
SinPiMilli(tm) ==
  LET p == tm * (1000 - tm)
  IN (16 * p) \div ((5000000 - 4 * p) \div 1000)

\* 1000 * sin(k * pi * t), k a positive integer
SinKPiMilli(k, tm) ==
  LET u == (k * tm) % 2000
  IN IF u <= 1000 THEN SinPiMilli(u) ELSE -SinPiMilli(u - 1000)

Vec(x, y, z) == [x |-> x, y |-> y, z |-> z]

DistSq(p, q) ==
  (p.x - q.x) * (p.x - q.x) + (p.y - q.y) * (p.y - q.y) + (p.z - q.z) * (p.z - q.z)

\* ---------------------------------------------------------------- shield
\* GameConfig.shields and the Shield fields that fix the cell lattice
ShieldCount     == 4
ShieldWidth     == 24
ShieldHeight    == 30
ShieldDistance  == 100
ShieldHeightY   == 0
ShieldSpacing   == 50
HexRadius       == 3
PlayerDamageRadius == 1
BaseHealth      == 3     \* Game.createShields "baseHealth"
MinHealth       == 1     \* Game.createShields "minHealth"
PlayerShotDamage == 50   \* "shield.checkHit(pos, sphere.radius, 50)"
AlienShotDamage  == 1    \* checkHit's default damage
PlayerRadius    == 5     \* Projectile radius 0.5, in tenths
AlienRadius     == 7     \* Projectile radius 0.7, in tenths

\* Shield geometry is kept in tenths of a world unit: the lattice pitches
\* hexRadius * 1.8 and hexRadius * 1.6, the hit reach hexRadius * 1.5 and the
\* projectile radii 0.5 and 0.7 are all whole numbers of tenths
Tenths     == 10
HexWidth   == HexRadius * 18      \* hexRadius * 1.8
HexHeight  == HexRadius * 16      \* hexRadius * 1.6
HitReach   == HexRadius * 15      \* hexRadius * 1.5
ShieldCols == CeilDiv(ShieldWidth * Tenths, HexWidth) + 1
ShieldRows == CeilDiv(ShieldHeight * Tenths, HexHeight) + 1

ShieldIds == 1..ShieldCount

\* the (row, col) pairs of createHexGrid's two loops, rows outer, cols inner
GridSlots ==
  [k \in 1..(ShieldRows * ShieldCols) |->
     [y |-> (k - 1) \div ShieldCols, x |-> (k - 1) % ShieldCols]]

LocalX(slot) ==
  -((ShieldWidth * Tenths) \div 2) + slot.x * HexWidth + (slot.y % 2) * (HexWidth \div 2)

LocalY(slot) == slot.y * HexHeight

\* createHexGrid's "Skip if outside shield bounds", negated
InBounds(slot) ==
  ~ \/ LocalX(slot) < -((ShieldWidth * Tenths) \div 2) - HexRadius * Tenths
    \/ LocalX(slot) > (ShieldWidth * Tenths) \div 2 + HexRadius * Tenths
    \/ LocalY(slot) > ShieldHeight * Tenths + HexRadius * Tenths

\* the cells createHexGrid pushes, in push order
HexGrid == SelectSeq(GridSlots, InBounds)
CellIds == 1..Len(HexGrid)

\* where Game.createShields puts shield s (world units)
ShieldPosition(s) ==
  Vec(-(((ShieldCount - 1) * ShieldSpacing) \div 2) + (s - 1) * ShieldSpacing,
      ShieldHeightY, -ShieldDistance)

\* worldX, worldY, worldZ of every cell of every shield (tenths)
CellWorld ==
  [s \in ShieldIds |->
     [c \in CellIds |->
        Vec(ShieldPosition(s).x * Tenths + LocalX(HexGrid[c]),
            ShieldPosition(s).y * Tenths + LocalY(HexGrid[c]),
            ShieldPosition(s).z * Tenths)]]

CellPos(s, c) == CellWorld[s][c]

CreateHexGrid(cellHealth) ==
  [c \in CellIds |-> [health |-> cellHealth, maxHealth |-> cellHealth, alive |-> TRUE]]

\* Shield.updateInstancedMesh, its effect on the cells: a cell that is not
\* alive or has no health left is marked not alive and gets no instance
UpdateInstancedMesh(cells) ==
  [c \in CellIds |->
     IF ~cells[c].alive \/ cells[c].health <= 0
     THEN [cells[c] EXCEPT !.alive = FALSE]
     ELSE cells[c]]

\* new Shield(position, scene, cellHealth)
NewShield(cellHealth) == UpdateInstancedMesh(CreateHexGrid(cellHealth))

\* the health rounded up instead of to the nearest integer
ShieldHealth_Ceil(wave) ==
  Max(MinHealth,
      (BaseHealth * WaveSpan - (BaseHealth - MinHealth) * Min(wave - 1, WaveSpan)
         + WaveSpan - 1) \div WaveSpan)

\* Game.createShields "shieldHealth":
\* max(minHealth, round(baseHealth - (baseHealth - minHealth) * min((wave-1)/99, 1)))
ShieldHealth(wave) ==
  Max(MinHealth,
      (2 * BaseHealth * WaveSpan - 2 * (BaseHealth - MinHealth) * Min(wave - 1, WaveSpan)
         + WaveSpan) \div (2 * WaveSpan))

\* Game.createShields
CreateShields(wave) == [s \in ShieldIds |-> NewShield(ShieldHealth(wave))]

\* checkHit's search loop without the test that skips dead cells
ClosestCell_DeadToo(cells, s, point, radius) ==
  LET near == {c \in CellIds :
                 DistSq(point, CellPos(s, c)) < (HitReach + radius) * (HitReach + radius)}
      best == {c \in near :
                 \A d \in near : DistSq(point, CellPos(s, c)) <= DistSq(point, CellPos(s, d))}
  IN IF near = {} THEN 0 ELSE CHOOSE c \in best : \A d \in best : c <= d

\* checkHit's search loop with "<=" between equally near cells, which keeps
\* the last of them
ClosestCell_LastOnTie(cells, s, point, radius) ==
  LET near == {c \in CellIds :
                 /\ cells[c].alive
                 /\ cells[c].health > 0
                 /\ DistSq(point, CellPos(s, c)) < (HitReach + radius) * (HitReach + radius)}
      best == {c \in near :
                 \A d \in near : DistSq(point, CellPos(s, c)) <= DistSq(point, CellPos(s, d))}
  IN IF near = {} THEN 0 ELSE CHOOSE c \in best : \A d \in best : c >= d

\* checkHit's search loop: the alive cell with health left that is nearest to
\* the point and nearer than hexRadius * 1.5 + radius; the strict "<" keeps the
\* first of equally near cells; 0 when there is none
ClosestCell(cells, s, point, radius) ==
  LET near == {c \in CellIds :
                 /\ cells[c].alive
                 /\ cells[c].health > 0
                 /\ DistSq(point, CellPos(s, c)) < (HitReach + radius) * (HitReach + radius)}
      best == {c \in near :
                 \A d \in near : DistSq(point, CellPos(s, c)) <= DistSq(point, CellPos(s, d))}
  IN IF near = {} THEN 0 ELSE CHOOSE c \in best : \A d \in best : c <= d

\* checkHit's blast loop: every alive cell within hexRadius * playerDamageRadius
\* of the centre loses all health and dies
Blast(cells, s, centre) ==
  [c \in CellIds |->
     IF /\ cells[c].alive
        /\ DistSq(centre, CellPos(s, c)) <=
             (HexRadius * PlayerDamageRadius * Tenths) * (HexRadius * PlayerDamageRadius * Tenths)
     THEN [cells[c] EXCEPT !.health = 0, !.alive = FALSE]
     ELSE cells[c]]

\* "just damage the closest cell" that kills the cell one health point early
DamageCell_KillAtOne(cells, c, damage) ==
  [cells EXCEPT ![c] = [@ EXCEPT !.health = @ - damage,
                                 !.alive = IF cells[c].health - damage <= 1 THEN FALSE ELSE @]]

\* checkHit's "just damage the closest cell"
DamageCell(cells, c, damage) ==
  [cells EXCEPT ![c] = [@ EXCEPT !.health = @ - damage,
                                 !.alive = IF cells[c].health - damage <= 0 THEN FALSE ELSE @]]

\* checkHit that takes the damage from the cell's full health
CheckHit_FromMaxHealth(cells, s, point, radius, damage) ==
  LET c == ClosestCell(cells, s, point, radius)
  IN IF c = 0 THEN [cells |-> cells, hit |-> FALSE, cell |-> 0]
     ELSE [cells |-> UpdateInstancedMesh(
                       IF damage > 1 THEN Blast(cells, s, CellPos(s, c))
                       ELSE [cells EXCEPT ![c] = [@ EXCEPT !.health = cells[c].maxHealth - damage]]),
           hit |-> TRUE, cell |-> c]

\* checkHit whose blast is centred on the impact point
CheckHit_BlastAtImpact(cells, s, point, radius, damage) ==
  LET c == ClosestCell(cells, s, point, radius)
  IN IF c = 0 THEN [cells |-> cells, hit |-> FALSE, cell |-> 0]
     ELSE [cells |-> UpdateInstancedMesh(
                       IF damage > 1 THEN Blast(cells, s, point)
                       ELSE DamageCell(cells, c, damage)),
           hit |-> TRUE, cell |-> c]

\* Shield.checkHit(point, radius, damage) on shield s: the cells afterwards,
\* the returned hit flag, and the hit cell, whose position is the returned one
CheckHit(cells, s, point, radius, damage) ==
  LET c == ClosestCell(cells, s, point, radius)
  IN IF c = 0 THEN [cells |-> cells, hit |-> FALSE, cell |-> 0]
     ELSE [cells |-> UpdateInstancedMesh(
                       IF damage > 1 THEN Blast(cells, s, CellPos(s, c))
                       ELSE DamageCell(cells, c, damage)),
           hit |-> TRUE, cell |-> c]

\* ------------------------------------------------------------- formation
AlienIds == 0 .. (Rows * Columns - 1)

\* createFormation pushes row by row, column by column
GridX(i) == i % Columns
GridY(i) == i \div Columns

AlienType(i) ==
  IF GridY(i) \in {3, 4} THEN "squid"
  ELSE IF GridY(i) \in {1, 2} THEN "bug"
  ELSE "crab"

AlienPoints(i) ==
  IF AlienType(i) = "squid" THEN 30
  ELSE IF AlienType(i) = "bug" THEN 20
  ELSE 10

VARIABLES
  aliens,          \* AlienFormation.aliens: index -> Alien fields
  formationX,      \* AlienFormation.formationX
  formationZ,      \* AlienFormation.formationZ
  direction,       \* AlienFormation.direction (1 right, -1 left)
  moveTimer,       \* AlienFormation.moveTimer, in 1/100 s
  currentWave,     \* AlienFormation.currentWave
  shootChance,     \* AlienFormation.shootChance, in 1/99000
  diveTimer,       \* AlienFormation.diveTimer, in ticks
  nextDiveTime,    \* AlienFormation.nextDiveTime, in ticks
  playerX,         \* AlienFormation.playerX
  currentGameTime, \* AlienFormation.currentGameTime, in ticks
  shields,         \* Game.shields: shield -> cell -> health, maxHealth, alive
  introActive,     \* AlienFormation.introActive
  introElapsedTime, \* AlienFormation.introElapsedTime, in ticks
  landingActive,   \* AlienFormation.landingActive
  landingElapsedTime, \* AlienFormation.landingElapsedTime, in ticks
  landingTargets,  \* AlienFormation.landingTargets: index -> start, target, delay
  game,            \* Game: state, lives, currentHealth, score, wave, gameTime and delay timers (ticks)
  lastOp           \* the last operation applied, its frame time, and call counts

formVars == <<aliens, formationX, formationZ, direction, moveTimer, currentWave,
              shootChance,
              diveTimer, nextDiveTime, playerX, currentGameTime>>

\* the intro and landing flags of the formation and the fields of Game
gameVars == <<introActive, introElapsedTime, landingActive, landingElapsedTime,
              landingTargets, game>>

vars == <<aliens, formationX, formationZ, direction, moveTimer, currentWave,
              shootChance,
          diveTimer, nextDiveTime, playerX, currentGameTime, shields,
          introActive, introElapsedTime, landingActive, landingElapsedTime,
          landingTargets, game, lastOp>>

TotalWidth == (Columns - 1) * SpacingX
StartX     == -(TotalWidth \div 2)

\* grid-derived formation position of alien i (updateAlienPositions)
GridPos(i, fx, fz) ==
  Vec(StartX + GridX(i) * SpacingX + fx, StartHeight, fz - GridY(i) * SpacingZ)

IsDiving(a) == a.diveState # "NONE"

AliveIds(als) == {i \in AlienIds : als[i].alive}

\* Alien.updateBrightness: max(0.3, 1.0 - 0.15 * aliensInFront), in 1/100
Brightness(aliensInFront) == Max(30, 100 - 15 * aliensInFront)

\* AlienFormation.updateAlienBrightness
UpdateAlienBrightness(als) ==
  [i \in AlienIds |->
     IF ~als[i].alive THEN als[i]
     ELSE IF IsDiving(als[i]) THEN [als[i] EXCEPT !.brightness = Brightness(0)]
     ELSE LET ahead == {j \in AlienIds :
                          /\ als[j].alive /\ ~IsDiving(als[j])
                          /\ GridX(j) = GridX(i) /\ GridY(j) < GridY(i)}
          IN [als[i] EXCEPT !.brightness = Brightness(Cardinality(ahead))]]

\* AlienFormation.updateAlienPositions
UpdateAlienPositions(als, fx, fz) ==
  [i \in AlienIds |->
     IF ~als[i].alive THEN als[i]
     ELSE IF IsDiving(als[i])
          THEN [als[i] EXCEPT !.formationPos = GridPos(i, fx, fz)]
          ELSE [als[i] EXCEPT !.formationPos = GridPos(i, fx, fz),
                              !.pos = GridPos(i, fx, fz)]]

\* new Alien(...): the fields of a fresh alien
NewAlien ==
  [alive |-> TRUE, diveState |-> "NONE", diveProgress |-> 0,
   diveStartPos |-> Vec(0, 0, 0), formationPos |-> Vec(0, 0, 0),
   diveTargetX |-> 0, lastDiveShotTime |-> 0, pos |-> Vec(0, 0, 0),
   brightness |-> 100,
   flyInState |-> "ARRIVED", flyInStartPos |-> Vec(0, 0, 0), flyInProgress |-> 0,
   flyInDelay |-> 0]

\* the landing clock runs in 1/400 s: a tick is 20 of them, the flight of
\* one alien ("landingDuration = 2.0") 800, the settle threshold (3.5 s) 1400
LandingUnit       == 400
LandingDuration   == 2 * LandingUnit
LandingSettle     == (7 * LandingUnit) \div 2
LandingArcHeight  == 30
LandingGroundY    == 5
LandingZ          == 50
LandingPerRow     == 8

\* an alien without an entry in landingTargets
NoTarget ==
  [has |-> FALSE, startPos |-> Vec(0, 0, 0), targetPos |-> Vec(0, 0, 0), delay |-> 0]

\* AlienFormation.startLanding, the entries of landingTargets: the alive
\* aliens in list order, eight to a row; draw.x and draw.z are the two
\* Math.random() of the slot in 1/100, draw.d the one of the delay in 1/120
LandingTargets(als, draw) ==
  [i \in AlienIds |->
     IF ~als[i].alive THEN NoTarget
     ELSE LET index == Cardinality({j \in AlienIds : als[j].alive /\ j < i})
              row == index \div LandingPerRow
              col == index % LandingPerRow
              targetXTenths == -1000 + (2 * col + 1) * 125 + (draw.x - 50)
              targetZTenths == LandingZ * Tenths - row * 250 + (draw.z - 50)
          IN [has |-> TRUE,
              startPos |-> als[i].pos,
              targetPos |-> Vec(targetXTenths \div Tenths, LandingGroundY,
                                targetZTenths \div Tenths),
              delay |-> (als[i].pos.z + LandingUnit) + draw.d]]

\* the draws of one landing: slots on whole units, the shortest and a long delay
LandingDrawSet == {[x |-> 55, z |-> 50, d |-> 0], [x |-> 45, z |-> 60, d |-> 119]}

\* AlienFormation.createFormation
CreateFormation(fx, fz) ==
  UpdateAlienBrightness(UpdateAlienPositions([i \in AlienIds |-> NewAlien], fx, fz))

\* the formation that the constructor and reset() build at the start distance
FreshFormation == CreateFormation(0, -StartDistance)

\* ------------------------------------------------------------ sweep step
\* 1 + (wave - 1) * 0.2, times 5
WaveMultiplierFifths(wave) == 5 + (wave - 1)

\* moveTimer >= baseMoveInterval * max(speedMultiplierMin, alive / total) / 60,
\* with moveTimer in 1/100 s and both sides multiplied by 60 * 10 * total / 100
\* AlienFormation.update "speedMultiplier" times baseMoveInterval: the move
\* interval in frames, scaled by 10 * total so that it is an integer
\* (baseMoveInterval * max(speedMultiplierMin, aliveCount / total))
MoveInterval_NoFloor(aliveCount, total) == BaseMoveInterval * 10 * aliveCount

MoveInterval(aliveCount, total) ==
  BaseMoveInterval * Max(SpeedMultiplierMinTenths * total, 10 * aliveCount)

\* "this.moveTimer >= moveInterval", the timer in 1/100 s and the interval
\* converted to seconds by "/ 60"
MoveDue(mt, aliveCount) ==
  mt * (FramesPerSecond \div 10) * (Rows * Columns)
    >= MoveInterval(aliveCount, Rows * Columns)

\* moveFormation without the undo of the shift that crossed the edge
MoveFormation_NoUndo(fx, fz, dir, als) ==
  LET fx1       == fx + BaseSpeed * dir
      halfWidth == TotalWidth \div 2
      xs        == {-halfWidth + GridX(i) * SpacingX + fx1 : i \in AliveIds(als)}
      hitEdge   == \E x \in xs : x > EdgeMargin \/ x < -EdgeMargin
  IN IF hitEdge
     THEN [fx |-> fx1, fz |-> fz + DropDistance, dir |-> -dir]
     ELSE [fx |-> fx1, fz |-> fz, dir |-> dir]

\* moveFormation that backs away from the player at the edge
MoveFormation_Retreat(fx, fz, dir, als) ==
  LET fx1       == fx + BaseSpeed * dir
      halfWidth == TotalWidth \div 2
      xs        == {-halfWidth + GridX(i) * SpacingX + fx1 : i \in AliveIds(als)}
      hitEdge   == \E x \in xs : x > EdgeMargin \/ x < -EdgeMargin
  IN IF hitEdge
     THEN [fx |-> fx1 + BaseSpeed * (-dir), fz |-> fz - DropDistance, dir |-> -dir]
     ELSE [fx |-> fx1, fz |-> fz, dir |-> dir]

\* AlienFormation.moveFormation: the new offset, depth and direction
MoveFormation(fx, fz, dir, als) ==
  LET fx1       == fx + BaseSpeed * dir
      halfWidth == TotalWidth \div 2
      xs        == {-halfWidth + GridX(i) * SpacingX + fx1 : i \in AliveIds(als)}
      hitEdge   == \E x \in xs : x > EdgeMargin \/ x < -EdgeMargin
  IN IF hitEdge
     THEN [fx |-> fx1 + BaseSpeed * (-dir), fz |-> fz + DropDistance, dir |-> -dir]
     ELSE [fx |-> fx1, fz |-> fz, dir |-> dir]

\* ----------------------------------------------------------------- shots
\* the elements of a set of alien indices in array order
RECURSIVE InOrder(_)
InOrder(ids) ==
  IF ids = {} THEN <<>>
  ELSE LET first == CHOOSE i \in ids : \A j \in ids : i <= j
       IN <<first>> \o InOrder(ids \ {first})

\* getFrontAliens that lets a diving alien stand in nobody's way
GetFrontAliens_DiversAside(als) ==
  InOrder({i \in AlienIds :
             /\ als[i].alive
             /\ ~\E j \in AlienIds :
                   /\ als[j].alive /\ j # i /\ ~IsDiving(als[j])
                   /\ GridX(j) = GridX(i) /\ GridY(j) < GridY(i)})

\* AlienFormation.getFrontAliens, in array order
GetFrontAliens(als) ==
  InOrder({i \in AlienIds :
             /\ als[i].alive
             /\ ~\E j \in AlienIds :
                   /\ als[j].alive /\ j # i
                   /\ GridX(j) = GridX(i) /\ GridY(j) < GridY(i)})

\* AlienFormation.tryShoot: one shot for each front alien whose random draw
\* falls below shootChance (the aliens in lucky), fired from 3 units below the
\* alien.  The shot's direction and type are not modelled.
TryShootShots(als, lucky) ==
  LET front == GetFrontAliens(als)
      Shot(i) == [from |-> i, position |-> Vec(als[i].pos.x, als[i].pos.y - 3, als[i].pos.z)]
      firing == SelectSeq(front, LAMBDA i : i \in lucky)
  IN [k \in 1 .. Len(firing) |-> Shot(firing[k])]

\* ------------------------------------------------------------------ dive
\* startDive without its guard
StartDive_Unguarded(a, type, targetX, currentTime) ==
  [a EXCEPT !.diveState = "DIVING", !.diveProgress = 0,
            !.diveStartPos = a.pos, !.formationPos = a.pos,
            !.diveTargetX = targetX, !.lastDiveShotTime = currentTime,
            !.brightness = Brightness(0)]

\* Alien.startDive
StartDive(a, type, targetX, currentTime) ==
  IF type # "squid" \/ a.diveState # "NONE" THEN a
  ELSE [a EXCEPT !.diveState = "DIVING", !.diveProgress = 0,
                 !.diveStartPos = a.pos, !.formationPos = a.pos,
                 !.diveTargetX = targetX, !.lastDiveShotTime = currentTime,
                 !.brightness = Brightness(0)]

\* GameConfig.timing.alienShootChanceBase and alienShootChanceMax, in 1/1000
AlienShootChanceBaseMilli == 5
AlienShootChanceMaxMilli  == 50

\* the chance scaled by wave / 99 instead of (wave - 1) / 99
ShootChance_FromWave(wave) ==
  AlienShootChanceBaseMilli * WaveSpan
    + (AlienShootChanceMaxMilli - AlienShootChanceBaseMilli) * Min(wave, WaveSpan)

\* AlienFormation.reset "shootChance", in 1/99000:
\* base + (max - base) * min((wave - 1) / 99, 1)
ShootChance(wave) ==
  AlienShootChanceBaseMilli * WaveSpan
    + (AlienShootChanceMaxMilli - AlienShootChanceBaseMilli) * Min(wave - 1, WaveSpan)

\* Alien.resetDive
ResetDive(a) == [a EXCEPT !.diveState = "NONE", !.diveProgress = 0]

\* floor(maxConcurrentDiversBase + (maxConcurrentDivers - base) * min((wave-1)/99, 1))
MaxDivers(wave) ==
  (MaxConcurrentDiversBase * WaveSpan
     + (MaxConcurrentDivers - MaxConcurrentDiversBase) * Min(wave - 1, WaveSpan))
    \div WaveSpan

CurrentDivers(als) == Cardinality({i \in AlienIds : als[i].alive /\ IsDiving(als[i])})

\* tryStartDive without the concurrent-diver cap
TryStartDive_NoCap(als, wave, px, gt, rPick) ==
  LET hasNonSquid == \E i \in AlienIds : als[i].alive /\ AlienType(i) # "squid"
      available   == InOrder({i \in AlienIds :
                        als[i].alive /\ AlienType(i) = "squid" /\ ~IsDiving(als[i])})
  IN IF ~hasNonSquid THEN als
     ELSE IF Len(available) = 0 THEN als
     ELSE LET squid == available[(rPick * Len(available)) \div 1000 + 1]
          IN [als EXCEPT ![squid] = StartDive(als[squid], AlienType(squid), px, gt)]

\* tryStartDive without the test for an alive alien that is no squid
TryStartDive_NoEscort(als, wave, px, gt, rPick) ==
  LET available   == InOrder({i \in AlienIds :
                        als[i].alive /\ AlienType(i) = "squid" /\ ~IsDiving(als[i])})
  IN IF CurrentDivers(als) >= MaxDivers(wave) THEN als
     ELSE IF Len(available) = 0 THEN als
     ELSE LET squid == available[(rPick * Len(available)) \div 1000 + 1]
          IN [als EXCEPT ![squid] = StartDive(als[squid], AlienType(squid), px, gt)]

\* AlienFormation.tryStartDive; rPick is the value of Math.random(), in 1/1000
TryStartDive(als, wave, px, gt, rPick) ==
  LET hasNonSquid == \E i \in AlienIds : als[i].alive /\ AlienType(i) # "squid"
      available   == InOrder({i \in AlienIds :
                        als[i].alive /\ AlienType(i) = "squid" /\ ~IsDiving(als[i])})
  IN IF ~hasNonSquid THEN als
     ELSE IF CurrentDivers(als) >= MaxDivers(wave) THEN als
     ELSE IF Len(available) = 0 THEN als
     ELSE LET squid == available[(rPick * Len(available)) \div 1000 + 1]
          IN [als EXCEPT ![squid] = StartDive(als[squid], AlienType(squid), px, gt)]

\* an interval bound of scheduleNextDive, in tenths of a second times WaveSpan
DiveIntervalScaled(baseTenths, lateTenths, wave) ==
  baseTenths * WaveSpan + (lateTenths - baseTenths) * Min(wave - 1, WaveSpan)

\* AlienFormation.scheduleNextDive: minInterval + random * (maxInterval - minInterval),
\* rNext the value of Math.random() in 1/1000.  The dive timer counts whole
\* ticks, so the threshold is rounded up to a whole tick.
NextDiveTime(wave, rNext) ==
  LET minI == DiveIntervalScaled(MinDiveIntervalTenths, MinDiveIntervalLateTenths, wave)
      maxI == DiveIntervalScaled(MaxDiveIntervalTenths, MaxDiveIntervalLateTenths, wave)
  IN CeilDiv((minI * 1000 + rNext * (maxI - minI)) * TicksPerSecond, 10000 * WaveSpan)

\* the DIVING branch without its check of the current position
UpdateDiving_NoSafetyCheck(a, dt) ==
  LET pos           == a.pos
      startPos      == a.diveStartPos
      totalDistance == Abs(startPos.z - RetreatZ)
  IN IF totalDistance < 1
     THEN [a EXCEPT !.diveState = "RETURNING", !.diveProgress = 0, !.diveStartPos = pos]
     ELSE
       LET progress == a.diveProgress
                         + (((DiveSpeed * dt) \div TicksPerSecond) * PUnit) \div totalDistance
           t   == Min(progress, PUnit)
           tm  == t \div (PUnit \div 1000)
           z   == startPos.z + ((RetreatZ - startPos.z) * t) \div PUnit
           baseY == startPos.y + ((DiveGroundY - startPos.y) * t) \div PUnit
           y   == baseY + (HeightBoost * SinPiMilli(tm)) \div 1000
           waveOffset == (SinKPiMilli(WaveFrequency, tm) * WaveAmplitude * (1000 - tm))
                           \div 1000000
           x   == startPos.x + ((a.diveTargetX - startPos.x) * tm) \div 1000 + waveOffset
       IN IF t >= PUnit
          THEN [a EXCEPT !.diveState = "RETURNING", !.diveProgress = 0,
                         !.diveStartPos = Vec(x, y, z), !.pos = Vec(x, y, z)]
          ELSE [a EXCEPT !.diveProgress = progress, !.pos = Vec(x, y, z)]

\* AlienFormation.updateDivingAlien, DIVING branch
UpdateDiving(a, dt) ==
  LET pos           == a.pos
      startPos      == a.diveStartPos
      totalDistance == Abs(startPos.z - RetreatZ)
  IN IF pos.z >= RetreatZ
     THEN [a EXCEPT !.diveState = "RETURNING", !.diveProgress = 0, !.diveStartPos = pos]
     ELSE IF totalDistance < 1
     THEN [a EXCEPT !.diveState = "RETURNING", !.diveProgress = 0, !.diveStartPos = pos]
     ELSE
       LET progress == a.diveProgress
                         + (((DiveSpeed * dt) \div TicksPerSecond) * PUnit) \div totalDistance
           t   == Min(progress, PUnit)
           tm  == t \div (PUnit \div 1000)
           z   == startPos.z + ((RetreatZ - startPos.z) * t) \div PUnit
           baseY == startPos.y + ((DiveGroundY - startPos.y) * t) \div PUnit
           y   == baseY + (HeightBoost * SinPiMilli(tm)) \div 1000
           waveOffset == (SinKPiMilli(WaveFrequency, tm) * WaveAmplitude * (1000 - tm))
                           \div 1000000
           x   == startPos.x + ((a.diveTargetX - startPos.x) * tm) \div 1000 + waveOffset
       IN IF t >= PUnit
          THEN [a EXCEPT !.diveState = "RETURNING", !.diveProgress = 0,
                         !.diveStartPos = Vec(x, y, z), !.pos = Vec(x, y, z)]
          ELSE [a EXCEPT !.diveProgress = progress, !.pos = Vec(x, y, z)]

\* the RETURNING branch without the setPosition that ends the return
UpdateReturning_NoSetPosition(a, dt) ==
  LET targetPos == a.formationPos
      startPos  == a.diveStartPos
      distSq    == DistSq(startPos, targetPos)
  IN IF distSq < 1 THEN ResetDive(a)
     ELSE
       LET returnDistance10 == Isqrt(100 * distSq)   \* tenths of a unit
           progress == a.diveProgress
                         + (((ReturnSpeed * dt) \div TicksPerSecond) * PUnit * 10)
                             \div returnDistance10
       IN IF progress >= PUnit
          THEN ResetDive(a)
          ELSE
            LET tm == progress \div (PUnit \div 1000)
                x  == startPos.x + ((targetPos.x - startPos.x) * tm) \div 1000
                baseY == startPos.y + ((targetPos.y - startPos.y) * tm) \div 1000
                y  == baseY + (HeightBoost * SinPiMilli(tm)) \div 4000
                z  == startPos.z + ((targetPos.z - startPos.z) * tm) \div 1000
            IN [a EXCEPT !.diveProgress = progress, !.pos = Vec(x, y, z)]

\* AlienFormation.updateDivingAlien, RETURNING branch
UpdateReturning(a, dt) ==
  LET targetPos == a.formationPos
      startPos  == a.diveStartPos
      distSq    == DistSq(startPos, targetPos)
  IN IF distSq < 1 THEN ResetDive(a)
     ELSE
       LET returnDistance10 == Isqrt(100 * distSq)   \* tenths of a unit
           progress == a.diveProgress
                         + (((ReturnSpeed * dt) \div TicksPerSecond) * PUnit * 10)
                             \div returnDistance10
       IN IF progress >= PUnit
          THEN [ResetDive(a) EXCEPT !.pos = targetPos]
          ELSE
            LET tm == progress \div (PUnit \div 1000)
                x  == startPos.x + ((targetPos.x - startPos.x) * tm) \div 1000
                baseY == startPos.y + ((targetPos.y - startPos.y) * tm) \div 1000
                y  == baseY + (HeightBoost * SinPiMilli(tm)) \div 4000
                z  == startPos.z + ((targetPos.z - startPos.z) * tm) \div 1000
            IN [a EXCEPT !.diveProgress = progress, !.pos = Vec(x, y, z)]
\* updateDivingAlien without its RETURNING branch
UpdateDivingAlien_NoReturn(a, dt) ==
  IF a.diveState = "DIVING" THEN UpdateDiving(a, dt) ELSE a

\* AlienFormation.updateDivingAlien
UpdateDivingAlien(a, dt) ==
  IF a.diveState = "DIVING" THEN UpdateDiving(a, dt)
  ELSE IF a.diveState = "RETURNING" THEN UpdateReturning(a, dt)
  ELSE a

\* the forEach at the end of updateDiveAttacks
UpdateDivers(als, dt) ==
  [i \in AlienIds |->
     IF ~als[i].alive \/ ~IsDiving(als[i]) THEN als[i] ELSE UpdateDivingAlien(als[i], dt)]
\* updateDiveAttacks whose scheduleNextDive leaves the timer running
UpdateDiveAttacks_KeepTimer(als, dt, px, gt, rPick, rNext) ==
  IF diveTimer + dt >= nextDiveTime
  THEN [aliens |-> CHOOSE after \in {UpdateDivers(started, dt) :
                      started \in {TryStartDive(als, currentWave, px, gt, rPick)}} : TRUE,
        diveTimer |-> diveTimer + dt,
        nextDiveTime |-> NextDiveTime(currentWave, rNext)]
  ELSE [aliens |-> UpdateDivers(als, dt),
        diveTimer |-> diveTimer + dt,
        nextDiveTime |-> nextDiveTime]

\* ---------------------------------------------------------------- update
\* AlienFormation.updateDiveAttacks: the aliens and the dive timers after it
UpdateDiveAttacks(als, dt, px, gt, rPick, rNext) ==
  IF diveTimer + dt >= nextDiveTime
  THEN [aliens |-> CHOOSE after \in {UpdateDivers(started, dt) :
                      started \in {TryStartDive(als, currentWave, px, gt, rPick)}} : TRUE,
        diveTimer |-> 0,
        nextDiveTime |-> NextDiveTime(currentWave, rNext)]
  ELSE [aliens |-> UpdateDivers(als, dt),
        diveTimer |-> diveTimer + dt,
        nextDiveTime |-> nextDiveTime]

\* the fields of the formation as they stand
Formation ==
  [aliens |-> aliens, formationX |-> formationX, formationZ |-> formationZ,
   direction |-> direction, moveTimer |-> moveTimer, diveTimer |-> diveTimer,
   nextDiveTime |-> nextDiveTime, playerX |-> playerX,
   currentGameTime |-> currentGameTime]
\* update that keeps the surplus of the move timer for the next call
FormationAfterUpdate_KeepSurplus(dt, px, gt, rPick, rNext) ==
  IF AliveIds(aliens) = {} THEN Formation
  ELSE
    LET due   == MoveDue(moveTimer + dt * WaveMultiplierFifths(currentWave),
                         Cardinality(AliveIds(aliens)))
        moved == IF due THEN MoveFormation(formationX, formationZ, direction, aliens)
                 ELSE [fx |-> formationX, fz |-> formationZ, dir |-> direction]
        als   == IF due THEN UpdateAlienPositions(aliens, moved.fx, moved.fz)
                 ELSE aliens
        dived == IF currentWave > 1
                 THEN UpdateDiveAttacks(als, dt, px, gt, rPick, rNext)
                 ELSE [aliens |-> als, diveTimer |-> diveTimer,
                       nextDiveTime |-> nextDiveTime]
    IN [aliens |-> dived.aliens,
        formationX |-> moved.fx, formationZ |-> moved.fz, direction |-> moved.dir,
        moveTimer |-> IF due
                      THEN moveTimer + dt * WaveMultiplierFifths(currentWave)
                             - MoveInterval(Cardinality(AliveIds(aliens)), Rows * Columns)
                                 \div ((FramesPerSecond \div 10) * (Rows * Columns))
                      ELSE moveTimer + dt * WaveMultiplierFifths(currentWave),
        diveTimer |-> dived.diveTimer, nextDiveTime |-> dived.nextDiveTime,
        playerX |-> px, currentGameTime |-> gt]

\* AlienFormation.update(deltaTime, playerX, gameTime): the fields of the
\* formation after the call
FormationAfterUpdate(dt, px, gt, rPick, rNext) ==
  IF AliveIds(aliens) = {} THEN Formation
  ELSE
    LET due   == MoveDue(moveTimer + dt * WaveMultiplierFifths(currentWave),
                         Cardinality(AliveIds(aliens)))
        moved == IF due THEN MoveFormation(formationX, formationZ, direction, aliens)
                 ELSE [fx |-> formationX, fz |-> formationZ, dir |-> direction]
        als   == IF due THEN UpdateAlienPositions(aliens, moved.fx, moved.fz)
                 ELSE aliens
        dived == IF currentWave > 1
                 THEN UpdateDiveAttacks(als, dt, px, gt, rPick, rNext)
                 ELSE [aliens |-> als, diveTimer |-> diveTimer,
                       nextDiveTime |-> nextDiveTime]
    IN [aliens |-> dived.aliens,
        formationX |-> moved.fx, formationZ |-> moved.fz, direction |-> moved.dir,
        moveTimer |-> IF due THEN 0
                      ELSE moveTimer + dt * WaveMultiplierFifths(currentWave),
        diveTimer |-> dived.diveTimer, nextDiveTime |-> dived.nextDiveTime,
        playerX |-> px, currentGameTime |-> gt]

\* the formation's fields take the values of the record f
FormationBecomes(f) ==
  /\ aliens' = f.aliens
  /\ formationX' = f.formationX
  /\ formationZ' = f.formationZ
  /\ direction' = f.direction
  /\ moveTimer' = f.moveTimer
  /\ diveTimer' = f.diveTimer
  /\ nextDiveTime' = f.nextDiveTime
  /\ playerX' = f.playerX
  /\ currentGameTime' = f.currentGameTime
  /\ UNCHANGED <<currentWave, shootChance>>

\* AlienFormation.update(deltaTime, playerX, gameTime), as an action on the
\* formation's fields
FormationUpdate(dt, px, gt, rPick, rNext) ==
  \E f \in {FormationAfterUpdate(dt, px, gt, rPick, rNext)} : FormationBecomes(f)

Drops == (formationZ + StartDistance) \div DropDistance

\* what checkHit returned when no checkHit was the last operation
NoHit == [hit |-> FALSE, shield |-> 0, cell |-> 0, point |-> Vec(0, 0, 0),
          radius |-> 0, damage |-> 0]

\* the CollisionResult checkAll starts from; destroyedProjectiles holds the
\* projectiles' places in the list.  resolved is not a field of the code's
\* result: it notes, for every projectile in turn, the targets it struck
EmptyResult ==
  [destroyedProjectiles |-> <<>>, alienHits |-> <<>>, shieldHits |-> <<>>,
   playerHit |-> FALSE, resolved |-> <<>>]

\* what checkAll returned when no checkAll was the last operation
NoCollision == [projectiles |-> <<>>, player |-> Vec(0, 0, 0), result |-> EmptyResult]

\* What an operation that is not an update leaves in lastOp
Quiet(op) ==
  [lastOp EXCEPT !.op = op, !.fired = FALSE, !.promoted = {}, !.landed = {},
                 !.shots = <<>>, !.step = "none", !.hit = NoHit,
                 !.collision = NoCollision, !.target = -1, !.returned = FALSE,
                 !.dividedByZero = FALSE]

\* alienFormation.update(deltaTime, playerX, gameTime) with the two random
\* draws.  lastOp records the call: its frame time, whether the dive timer
\* fired, which aliens left and re-entered the formation, where the formation
\* stood when each alien now away (or just back) left it, whether the formation
\* shifted or flipped, and the ticks the dive scheduler has run since the wave
\* began.
Update(dt, px, gt, rPick, rNext) ==
  /\ FormationUpdate(dt, px, gt, rPick, rNext)
  /\ UNCHANGED <<shields, gameVars>>
  /\ \E promoted \in {{i \in AlienIds : ~IsDiving(aliens[i]) /\ IsDiving(aliens'[i])}} :
       lastOp' = [lastOp EXCEPT
         !.op = "update",
         !.dt = dt,
         !.elapsed = IF currentWave > 1 THEN @ + dt ELSE @,
         !.fired = /\ AliveIds(aliens) # {} /\ currentWave > 1
                   /\ diveTimer + dt >= nextDiveTime,
         !.promoted = promoted,
         !.shots = <<>>,
         !.target = -1, !.returned = FALSE, !.dividedByZero = FALSE,
         !.step = IF formationZ' # formationZ THEN "flip"
                  ELSE IF formationX' # formationX THEN "shift" ELSE "none",
         !.landed = {i \in AlienIds : IsDiving(aliens[i]) /\ ~IsDiving(aliens'[i])},
         !.diveFrom = {e \in @ : IsDiving(aliens[e.id])}
                        \cup {[id |-> i, fx |-> formationX, fz |-> formationZ] :
                                i \in promoted}]

\* AlienFormation.reset(wave)
Reset(wave) ==
  /\ aliens' = FreshFormation
  /\ formationX' = 0
  /\ formationZ' = -StartDistance
  /\ direction' = 1
  /\ moveTimer' = 0
  /\ currentWave' = wave
  /\ shootChance' = ShootChance(wave)
  /\ diveTimer' = 0
  /\ nextDiveTime' = FirstDiveSeconds * TicksPerSecond
  /\ UNCHANGED <<playerX, currentGameTime, shields, gameVars>>
  /\ lastOp' = [Quiet("reset") EXCEPT !.elapsed = 0, !.diveFrom = {}]

\* Alien.hide.  Every read of an alien's position, formation position, dive
\* start or brightness after the call that killed it is guarded by its alive
\* flag, so the model parks these fields of a dead alien at their initial values.
Hide(a) ==
  [a EXCEPT !.alive = FALSE, !.pos = Vec(0, 0, 0), !.formationPos = Vec(0, 0, 0),
            !.diveStartPos = Vec(0, 0, 0), !.brightness = 100]

\* ----------------------------------------------------------------- intro
FlySpeed       == 120   \* "const flySpeed = 120;  // Units per second"
RowDelayTicks  == 6     \* "(config.rows - 1 - alien.gridY) * 0.3", 0.3 s in ticks

\* Alien.startFlyIn(startPos, targetPos, delay); delay in ticks
AlienStartFlyIn(a, startPos, targetPos, delay) ==
  [a EXCEPT !.flyInState = "WAITING", !.flyInStartPos = startPos,
            !.formationPos = targetPos,
            !.flyInProgress = 0, !.flyInDelay = delay,
            !.pos = startPos]

\* the position of the FLYING branch: start + (target - start) * t with the
\* ease-out t = 1 - (1 - progress)^2, the progress taken in 1/1000 from the
\* distance flown and the total distance in tenths
FlyInPosition(a, flown, distSq) ==
  LET dist10 == Isqrt(100 * distSq)
      pm == Min(1000, (flown * 10000) \div dist10)
      tm == 1000 - ((1000 - pm) * (1000 - pm)) \div 1000
  IN Vec(a.flyInStartPos.x + ((a.formationPos.x - a.flyInStartPos.x) * tm) \div 1000,
         a.flyInStartPos.y + ((a.formationPos.y - a.flyInStartPos.y) * tm) \div 1000,
         a.flyInStartPos.z + ((a.formationPos.z - a.flyInStartPos.z) * tm) \div 1000)
\* an arrival that shows the alien again (Alien.show: visible and alive)
Arrive_Show(a) ==
  [a EXCEPT !.flyInState = "ARRIVED", !.flyInProgress = 0, !.pos = a.formationPos,
            !.alive = TRUE]

\* the ARRIVED branch that ends a flight.  The code leaves flyInProgress at 1,
\* which nothing reads before startFlyIn clears it; it is cleared here.
Arrive(a) ==
  [a EXCEPT !.flyInState = "ARRIVED", !.flyInProgress = 0, !.pos = a.formationPos]

\* Alien.updateFlyIn(deltaTime, elapsedTime): the alien after the call, the
\* returned flag, and whether the call divided by a total distance of zero.
\* flyInProgress holds progress * totalDistance, the distance flown in whole
\* units (flySpeed * deltaTime is 6 units a tick), so that "flyInProgress >= 1"
\* is flown >= totalDistance, compared exactly by squares.  The division
\* (flySpeed * deltaTime) / 0 yields Infinity for the positive frame times used
\* here, which is >= 1.
UpdateFlyIn(a, dt, elapsedTime) ==
  IF a.flyInState = "ARRIVED"
  THEN [alien |-> a, arrived |-> TRUE, dividedByZero |-> FALSE]
  ELSE IF a.flyInState = "WAITING"
  THEN [alien |-> IF elapsedTime >= a.flyInDelay
                  THEN [a EXCEPT !.flyInState = "FLYING"] ELSE a,
        arrived |-> FALSE, dividedByZero |-> FALSE]
  ELSE
    LET distSq == DistSq(a.flyInStartPos, a.formationPos)
        flown  == a.flyInProgress + (FlySpeed * dt) \div TicksPerSecond
    IN IF distSq = 0
       THEN [alien |-> Arrive(a), arrived |-> TRUE, dividedByZero |-> TRUE]
       ELSE IF flown * flown >= distSq
       THEN [alien |-> Arrive(a), arrived |-> TRUE, dividedByZero |-> FALSE]
       ELSE [alien |-> [a EXCEPT !.flyInProgress = flown,
                                 !.pos = FlyInPosition(a, flown, distSq)],
             arrived |-> FALSE, dividedByZero |-> FALSE]

\* ------------------------------------------------------------- collision
HexDepth        == 2     \* Shield.hexDepth
AlienScale      == 2     \* GameConfig.aliens.scale
PlayerHitRadius == 8     \* "const hitRadius = 8 + sphere.radius"
PlayerHeight    == 5     \* GameConfig.player.height

\* PlayerTurret.position after construction and after reset (tenths)
PlayerHome == Vec(0, PlayerHeight * Tenths, PlayerZ * Tenths)

\* Projectile.getBoundingSphere radius (tenths)
ProjectileRadius(type) == IF type = "player" THEN PlayerRadius ELSE AlienRadius

\* pixel columns and rows of ALIEN_SPRITES[type]
SpriteWidth(type) == IF type = "squid" THEN 8 ELSE IF type = "crab" THEN 11 ELSE 12
SpriteHeight(type) == 8

\* Alien.getBoundingSphere radius (tenths, rounded down): the sphere around
\* the box of the sprite, whose voxels span SpriteWidth * scale by
\* SpriteHeight * scale by scale world units around the alien's position
AlienSphereRadii ==
  [i \in AlienIds |->
     Isqrt((SpriteWidth(AlienType(i)) * SpriteWidth(AlienType(i))
              + SpriteHeight(AlienType(i)) * SpriteHeight(AlienType(i)) + 1)
           * ((AlienScale * Tenths) \div 2) * ((AlienScale * Tenths) \div 2))]

AlienSphereRadius(i) == AlienSphereRadii[i]

\* world units to tenths
InTenths(v) == Vec(v.x * Tenths, v.y * Tenths, v.z * Tenths)

\* the sphere test of checkPlayerProjectile's alien loop
Overlaps(p, als, i) ==
  DistSq(p.pos, InTenths(als[i].pos)) <
    (ProjectileRadius(p.type) + AlienSphereRadius(i))
      * (ProjectileRadius(p.type) + AlienSphereRadius(i))

\* Shield.getBoundingBox().containsPoint(pos)
InBoundingBox(s, pos) ==
  /\ pos.x >= (ShieldPosition(s).x * Tenths - (ShieldWidth * Tenths) \div 2) - 2 * HexRadius * Tenths
  /\ pos.x <= (ShieldPosition(s).x * Tenths + (ShieldWidth * Tenths) \div 2) + 2 * HexRadius * Tenths
  /\ pos.y >= ShieldPosition(s).y * Tenths - 2 * HexRadius * Tenths
  /\ pos.y <= (ShieldPosition(s).y + ShieldHeight) * Tenths + 2 * HexRadius * Tenths
  /\ pos.z >= (ShieldPosition(s).z - HexDepth) * Tenths - 2 * HexRadius * Tenths
  /\ pos.z <= (ShieldPosition(s).z + HexDepth) * Tenths + 2 * HexRadius * Tenths

\* the shield loop shared by both kinds of projectile: the first shield whose
\* bounding box holds the point and whose checkHit hits takes the projectile
\* (a checkHit that misses changes nothing); 0 when there is none
ShieldStruck(shs, p) ==
  LET struck == {s \in ShieldIds :
                   /\ InBoundingBox(s, p.pos)
                   /\ ClosestCell(shs[s], s, p.pos, ProjectileRadius(p.type)) # 0}
  IN IF struck = {} THEN 0 ELSE CHOOSE s \in struck : \A t \in struck : s <= t

\* one shield hit added to the state st = [aliens, shields, result]
HitShield(st, k, p, s, damage) ==
  LET r == CheckHit(st.shields[s], s, p.pos, ProjectileRadius(p.type), damage)
  IN [st EXCEPT
        !.shields = [@ EXCEPT ![s] = r.cells],
        !.result = [@ EXCEPT
           !.shieldHits = Append(@, [shield |-> s, position |-> CellPos(s, r.cell),
                                     isPlayerShot |-> p.type = "player"]),
           !.destroyedProjectiles = Append(@, k),
           !.resolved = [@ EXCEPT ![k] = @ \cup {[kind |-> "shield", id |-> s]}]]]
\* the alien hit of checkPlayerProjectile without alien.hide(): the alien
\* is recorded and stays alive for the projectiles that follow
HitAlien_NoHide(st, k, i) ==
  [st EXCEPT
     !.result = [@ EXCEPT
        !.alienHits = Append(@, [alien |-> i, points |-> AlienPoints(i),
                                 position |-> st.aliens[i].pos]),
        !.destroyedProjectiles = Append(@, k),
        !.resolved = [@ EXCEPT ![k] = @ \cup {[kind |-> "alien", id |-> i]}]]]

\* one alien hit added to the state
HitAlien(st, k, i) ==
  [st EXCEPT
     !.aliens = [@ EXCEPT ![i] = Hide(@)],
     !.result = [@ EXCEPT
        !.alienHits = Append(@, [alien |-> i, points |-> AlienPoints(i),
                                 position |-> st.aliens[i].pos]),
        !.destroyedProjectiles = Append(@, k),
        !.resolved = [@ EXCEPT ![k] = @ \cup {[kind |-> "alien", id |-> i]}]]]

\* every alien of ids hit in turn by projectile k
RECURSIVE HitAliens(_, _, _)
HitAliens(st, k, ids) ==
  IF ids = {} THEN st
  ELSE LET i == CHOOSE j \in ids : \A m \in ids : j <= m
       IN HitAliens(HitAlien(st, k, i), k, ids \ {i})

\* checkPlayerProjectile with the shield loop ahead of the alien loop
CheckPlayerProjectile_ShieldsFirst(st, k, p) ==
  LET hit == {i \in AlienIds : st.aliens[i].alive /\ Overlaps(p, st.aliens, i)}
      s   == ShieldStruck(st.shields, p)
  IN IF s # 0 THEN HitShield(st, k, p, s, PlayerShotDamage)
     ELSE IF hit # {} THEN HitAlien(st, k, CHOOSE i \in hit : \A j \in hit : i <= j)
     ELSE st

\* checkPlayerProjectile whose loops go on after a hit
CheckPlayerProjectile_NoReturn(st, k, p) ==
  LET hit  == {i \in AlienIds : st.aliens[i].alive /\ Overlaps(p, st.aliens, i)}
      after == HitAliens(st, k, hit)
      s    == ShieldStruck(st.shields, p)
  IN IF s # 0 THEN HitShield(after, k, p, s, PlayerShotDamage) ELSE after
\* CollisionSystem.checkPlayerProjectile for the k-th projectile p: the first
\* alive alien whose sphere it overlaps, else the first shield it strikes
CheckPlayerProjectile(st, k, p) ==
  LET hit == {i \in AlienIds : st.aliens[i].alive /\ Overlaps(p, st.aliens, i)}
      s   == ShieldStruck(st.shields, p)
  IN IF hit # {} THEN HitAlien(st, k, CHOOSE i \in hit : \A j \in hit : i <= j)
     ELSE IF s # 0 THEN HitShield(st, k, p, s, PlayerShotDamage)
     ELSE st

\* checkAlienProjectile with the player test ahead of the shield loop
CheckAlienProjectile_PlayerFirst(st, k, p, playerPos) ==
  LET s == ShieldStruck(st.shields, p)
  IN IF (p.pos.x - playerPos.x) * (p.pos.x - playerPos.x)
          + (p.pos.z - playerPos.z) * (p.pos.z - playerPos.z)
        < (PlayerHitRadius * Tenths + ProjectileRadius(p.type))
            * (PlayerHitRadius * Tenths + ProjectileRadius(p.type))
     THEN [st EXCEPT
             !.result = [@ EXCEPT
                !.playerHit = TRUE,
                !.destroyedProjectiles = Append(@, k),
                !.resolved = [@ EXCEPT ![k] = @ \cup {[kind |-> "player", id |-> 0]}]]]
     ELSE IF s # 0 THEN HitShield(st, k, p, s, AlienShotDamage)
     ELSE st

\* checkAlienProjectile whose player test includes the boundary distance
CheckAlienProjectile_AtBoundary(st, k, p, playerPos) ==
  LET s == ShieldStruck(st.shields, p)
  IN IF s # 0 THEN HitShield(st, k, p, s, AlienShotDamage)
     ELSE IF (p.pos.x - playerPos.x) * (p.pos.x - playerPos.x)
               + (p.pos.z - playerPos.z) * (p.pos.z - playerPos.z)
             <= (PlayerHitRadius * Tenths + ProjectileRadius(p.type))
                 * (PlayerHitRadius * Tenths + ProjectileRadius(p.type))
     THEN [st EXCEPT
             !.result = [@ EXCEPT
                !.playerHit = TRUE,
                !.destroyedProjectiles = Append(@, k),
                !.resolved = [@ EXCEPT ![k] = @ \cup {[kind |-> "player", id |-> 0]}]]]
     ELSE st

\* CollisionSystem.checkAlienProjectile: the first shield it strikes, else the
\* player, at playerPos (tenths), when within 8 + radius of it in the
\* horizontal plane
CheckAlienProjectile(st, k, p, playerPos) ==
  LET s == ShieldStruck(st.shields, p)
  IN IF s # 0 THEN HitShield(st, k, p, s, AlienShotDamage)
     ELSE IF (p.pos.x - playerPos.x) * (p.pos.x - playerPos.x)
               + (p.pos.z - playerPos.z) * (p.pos.z - playerPos.z)
             < (PlayerHitRadius * Tenths + ProjectileRadius(p.type))
                 * (PlayerHitRadius * Tenths + ProjectileRadius(p.type))
     THEN [st EXCEPT
             !.result = [@ EXCEPT
                !.playerHit = TRUE,
                !.destroyedProjectiles = Append(@, k),
                !.resolved = [@ EXCEPT ![k] = @ \cup {[kind |-> "player", id |-> 0]}]]]
     ELSE st

\* one turn of checkAll's loop: the k-th projectile p against the state st
CheckProjectile(st, k, p, playerPos) ==
  IF p.type = "player"
  THEN CheckPlayerProjectile(
         [st EXCEPT !.result = [@ EXCEPT !.resolved = Append(@, {})]], k, p)
  ELSE CheckAlienProjectile(
         [st EXCEPT !.result = [@ EXCEPT !.resolved = Append(@, {})]], k, p, playerPos)

\* checkAll's loop from the k-th projectile on (the state after each
\* projectile is bound once, as an element of a one-element set)
RECURSIVE CheckFrom(_, _, _, _)
CheckFrom(st, projectiles, k, playerPos) ==
  IF k > Len(projectiles) THEN st
  ELSE CHOOSE end \in {CheckFrom(next, projectiles, k + 1, playerPos) :
                         next \in {CheckProjectile(st, k, projectiles[k], playerPos)}} : TRUE

\* CollisionSystem.checkAll(projectiles, alienFormation, shields, player) with
\* player.getPosition() = playerPos
CheckAll(projectiles, als, shs, playerPos) ==
  CheckFrom([aliens |-> als, shields |-> shs, result |-> EmptyResult],
            projectiles, 1, playerPos)

\* A player shot kills alien i: Alien.hide, then the brightness refresh that
\* Game.checkCollisions runs after a kill
Kill(i) ==
  /\ aliens[i].alive
  /\ \E hidden \in {[aliens EXCEPT ![i] = Hide(@)]} :
       aliens' = UpdateAlienBrightness(hidden)
  /\ UNCHANGED <<formationX, formationZ, direction, moveTimer, currentWave,
              shootChance,
                 diveTimer, nextDiveTime, playerX, currentGameTime, shields, gameVars>>
  /\ lastOp' = Quiet("kill")

\* alienFormation.tryShoot(); lastOp.shots is the list it returns
TryShoot(lucky) ==
  /\ UNCHANGED <<formVars, shields, gameVars>>
  /\ lastOp' = [Quiet("tryShoot") EXCEPT !.shots = TryShootShots(aliens, lucky)]

\* GameConfig.gameplay
Lives          == 3
HitsPerLife    == 20
DangerDistance == 100

\* the fields of a new Game
NewGame ==
  [state |-> "MENU", lives |-> Lives, currentHealth |-> HitsPerLife, score |-> 0,
   wave |-> 1, gameTime |-> 0, waveCompleteDelayTimer |-> 0, lifeLostDelayTimer |-> 0,
   waveCompleteTuneTimer |-> 0, lifeLostTuneTimer |-> 0,
   projectiles |-> <<>>]

\* new AlienFormation(scene), or the formation as reset(wave) leaves a new one
InitFormationWith(wave, als) ==
  /\ aliens = als
  /\ formationX = 0
  /\ formationZ = -StartDistance
  /\ direction = 1
  /\ moveTimer = 0
  /\ currentWave = wave
  /\ shootChance = ShootChance(wave)
  /\ diveTimer = 0
  /\ nextDiveTime = FirstDiveSeconds * TicksPerSecond
  /\ playerX = 0
  /\ currentGameTime = 0
  /\ introActive = FALSE
  /\ introElapsedTime = 0
  /\ landingActive = FALSE
  /\ landingElapsedTime = 0
  /\ landingTargets = [i \in AlienIds |-> NoTarget]
  /\ lastOp = [op |-> "new", dt |-> 0, elapsed |-> 0,
               fired |-> FALSE, promoted |-> {}, landed |-> {}, diveFrom |-> {},
               shots |-> <<>>, step |-> "none", hit |-> NoHit,
               collision |-> NoCollision, target |-> -1, returned |-> FALSE,
               dividedByZero |-> FALSE]

InitFormation(wave) == InitFormationWith(wave, FreshFormation)

\* the Game constructor: the formation and the shields of wave 1
Init ==
  /\ InitFormation(1)
  /\ shields = CreateShields(1)
  /\ game = NewGame

\* shields[s].checkHit(point, radius, damage); lastOp.hit records the call,
\* the returned hit flag and the hit cell
ShieldCheckHit(s, point, radius, damage) ==
  /\ \E r \in {CheckHit(shields[s], s, point, radius, damage)} :
       /\ shields' = [shields EXCEPT ![s] = r.cells]
       /\ lastOp' = [Quiet("checkHit") EXCEPT
                       !.hit = [hit |-> r.hit, shield |-> s, cell |-> r.cell,
                                point |-> point, radius |-> radius, damage |-> damage]]
  /\ UNCHANGED <<formVars, gameVars>>

\* Alien.setPosition(x, y, z) on alive alien i
SetPosition(i, pos) ==
  /\ aliens[i].alive
  /\ aliens' = [aliens EXCEPT ![i] = [@ EXCEPT !.pos = pos]]
  /\ UNCHANGED <<formationX, formationZ, direction, moveTimer, currentWave,
              shootChance,
                 diveTimer, nextDiveTime, playerX, currentGameTime, shields, gameVars>>
  /\ lastOp' = Quiet("setPosition")

\* Game.checkCollisions on a list of projectiles with the player at playerPos:
\* collisionSystem.checkAll, then the brightness refresh that follows alien
\* kills; lastOp.collision records the call and the CollisionResult
CheckCollisions(projectiles, playerPos) ==
  /\ \E r \in {CheckAll(projectiles, aliens, shields, playerPos)} :
       /\ aliens' = IF r.result.alienHits # <<>>
                    THEN UpdateAlienBrightness(r.aliens) ELSE r.aliens
       /\ shields' = r.shields
       /\ lastOp' = [Quiet("checkAll") EXCEPT
                       !.collision = [projectiles |-> projectiles, player |-> playerPos,
                                      result |-> r.result]]
  /\ UNCHANGED <<formationX, formationZ, direction, moveTimer, currentWave,
              shootChance,
                 diveTimer, nextDiveTime, playerX, currentGameTime, gameVars>>

\* AlienFormation.startIntro(): plan gives every alien the spawn point and
\* the random part of the delay (ticks) that its random draws produce
StartIntro(plan) ==
  /\ introActive' = TRUE
  /\ introElapsedTime' = 0
  /\ aliens' = [i \in AlienIds |->
                  AlienStartFlyIn(aliens[i], plan[i].startPos,
                                  GridPos(i, formationX, formationZ),
                                  (Rows - 1 - GridY(i)) * RowDelayTicks + plan[i].randomDelay)]
  /\ UNCHANGED <<formationX, formationZ, direction, moveTimer, currentWave,
              shootChance,
                 diveTimer, nextDiveTime, playerX, currentGameTime, shields,
                 landingActive, landingElapsedTime, landingTargets, game>>
  /\ lastOp' = Quiet("startIntro")

\* aliens[i].startFlyIn(startPos, targetPos, delay)
StartFlyIn(i, startPos, targetPos, delay) ==
  /\ aliens' = [aliens EXCEPT ![i] = AlienStartFlyIn(@, startPos, targetPos, delay)]
  /\ UNCHANGED <<formationX, formationZ, direction, moveTimer, currentWave,
              shootChance,
                 diveTimer, nextDiveTime, playerX, currentGameTime, shields, gameVars>>
  /\ lastOp' = [Quiet("startFlyIn") EXCEPT !.target = i]

\* AlienFormation.updateIntro(deltaTime); lastOp.returned is the value it
\* returns
\* "allArrived": every alien's updateFlyIn returned true
IntroComplete_Any(flights) == \E i \in AlienIds : flights[i].arrived

IntroComplete(flights) == \A i \in AlienIds : flights[i].arrived

\* AlienFormation.updateIntro as a function of the formation's fields: the
\* aliens, the intro flag and clock after it, and the value returned
UpdateIntroOf(dt, als, active, elapsed) ==
  IF ~active
  THEN [aliens |-> als, introActive |-> active, introElapsedTime |-> elapsed,
        complete |-> TRUE, dividedByZero |-> FALSE]
  ELSE LET flights == [i \in AlienIds |-> UpdateFlyIn(als[i], dt, elapsed + dt)]
           allArrived == IntroComplete(flights)
       IN [aliens |-> IF allArrived
                      THEN UpdateAlienBrightness([i \in AlienIds |-> flights[i].alien])
                      ELSE [i \in AlienIds |-> flights[i].alien],
           introActive |-> ~allArrived, introElapsedTime |-> elapsed + dt,
           complete |-> allArrived,
           dividedByZero |-> \E i \in AlienIds : flights[i].dividedByZero]

UpdateIntro(dt) ==
  /\ \E u \in {UpdateIntroOf(dt, aliens, introActive, introElapsedTime)} :
       /\ aliens' = u.aliens
       /\ introActive' = u.introActive
       /\ introElapsedTime' = u.introElapsedTime
       /\ lastOp' = [Quiet("updateIntro") EXCEPT
                       !.dt = dt, !.returned = u.complete,
                       !.dividedByZero = u.dividedByZero]
  /\ UNCHANGED <<formationX, formationZ, direction, moveTimer, currentWave,
                 shootChance, diveTimer, nextDiveTime, playerX, currentGameTime,
                 shields, landingActive, landingElapsedTime, landingTargets, game>>

\* aliens[i].startDive(targetX, currentTime)
AlienStartDive(i, targetX, currentTime) ==
  /\ aliens' = [aliens EXCEPT ![i] = StartDive(@, AlienType(i), targetX, currentTime)]
  /\ UNCHANGED <<formationX, formationZ, direction, moveTimer, currentWave,
              shootChance,
                 diveTimer, nextDiveTime, playerX, currentGameTime, shields, gameVars>>
  /\ lastOp' = [Quiet("startDive") EXCEPT !.target = i]

\* ------------------------------------------------------------ Game frame
\* DIVE_CONFIG.diveShootIntervalBase and diveShootIntervalLate, in tenths of
\* a second, and the span of "(this.currentWave - 2) / 73"
DiveShootIntervalBaseTenths == 10
DiveShootIntervalLateTenths == 4
StrafeWaveSpan              == 73

\* getDiveStrafeShots' test "currentTime - alien.lastDiveShotTime <
\* shootInterval" for a gap of whole ticks: shootInterval is
\* base + (late - base) * min((wave - 2) / 73, 1) seconds, and both sides are
\* scaled by 10 * 73 to stay in integers
StrafeTooSoon_Never(gap, wave) == FALSE

StrafeTooSoon(gap, wave) ==
  gap * 10 * StrafeWaveSpan
    < ( DiveShootIntervalBaseTenths * StrafeWaveSpan
        + (DiveShootIntervalLateTenths - DiveShootIntervalBaseTenths)
            * Min(wave - 2, StrafeWaveSpan) ) * TicksPerSecond

\* the aliens getDiveStrafeShots lets shoot
StrafeShooters(als, wave, currentTime) ==
  {i \in AlienIds :
     /\ als[i].alive /\ als[i].diveState = "DIVING"
     /\ ~StrafeTooSoon(currentTime - als[i].lastDiveShotTime, wave)
     /\ ~(als[i].diveProgress * 5 < PUnit \/ als[i].diveProgress * 5 > 4 * PUnit)}

\* AlienFormation.getDiveStrafeShots(currentTime): the aliens after the call
\* and the list it returns, each shot fired from 3 units below its alien.
\* The shot's direction and type are not modelled.
GetDiveStrafeShots(als, wave, currentTime) ==
  LET shooters == StrafeShooters(als, wave, currentTime)
      order    == InOrder(shooters)
  IN [aliens |-> [i \in AlienIds |->
                    IF i \in shooters
                    THEN [als[i] EXCEPT !.lastDiveShotTime = currentTime]
                    ELSE als[i]],
      shots  |-> [k \in 1 .. Len(order) |->
                    [from |-> order[k],
                     position |-> Vec(als[order[k]].pos.x, als[order[k]].pos.y - 3,
                                      als[order[k]].pos.z)]]]

\* hasReachedDangerZone reading only the front-most alive alien of each column
HasReachedDangerZone_FormationOnly(als) ==
  \E i \in AlienIds :
    /\ als[i].alive /\ ~IsDiving(als[i])
    /\ als[i].pos.z > -DangerDistance

\* AlienFormation.hasReachedDangerZone
HasReachedDangerZone(als) ==
  \E i \in AlienIds : als[i].alive /\ als[i].pos.z > -DangerDistance

\* AlienFormation.startLanding, as far as the aliens' dive fields go: every
\* alive alien that is away from the formation has its dive reset
\* (LandingTargets gives the entries of landingTargets)
StartLanding(als) ==
  [i \in AlienIds |->
     IF als[i].alive /\ IsDiving(als[i]) THEN ResetDive(als[i]) ELSE als[i]]

\* the sum of the points of a list of alien hits
RECURSIVE PointsOf(_)
PointsOf(hits) ==
  IF hits = <<>> THEN 0 ELSE hits[1].points + PointsOf(Tail(hits))
\* checkCollisions that takes one health point for every projectile that
\* struck the player
AfterCollisions_EveryHit(g, r) ==
  LET scored == [g EXCEPT !.score = @ + PointsOf(r.alienHits)]
      struck == Cardinality({k \in DOMAIN r.resolved :
                               [kind |-> "player", id |-> 0] \in r.resolved[k]})
  IN IF ~r.playerHit THEN scored
     ELSE IF scored.currentHealth - struck > 0
          THEN [scored EXCEPT !.currentHealth = @ - struck]
          ELSE IF scored.lives - 1 <= 0
               THEN [scored EXCEPT !.currentHealth = @ - struck, !.lives = @ - 1,
                                   !.state = "GAME_OVER", !.projectiles = <<>>]
               ELSE [scored EXCEPT !.currentHealth = @ - struck, !.lives = @ - 1,
                                   !.state = "LIFE_LOST_DELAY", !.projectiles = <<>>,
                                   !.lifeLostDelayTimer = (3 * TicksPerSecond) \div 2]

\* Game.checkCollisions' handling of the CollisionResult r on the Game g:
\* the score of the kills, then a hit on the player, which costs one health
\* and, at no health left, one life, and then starts the game-over or the
\* life-lost sequence
AfterCollisions(g, r) ==
  LET scored == [g EXCEPT !.score = @ + PointsOf(r.alienHits)]
  IN IF ~r.playerHit THEN scored
     ELSE IF scored.currentHealth - 1 > 0
          THEN [scored EXCEPT !.currentHealth = @ - 1]
          ELSE IF scored.lives - 1 <= 0
               THEN [scored EXCEPT !.currentHealth = @ - 1, !.lives = @ - 1,
                                   !.state = "GAME_OVER", !.projectiles = <<>>]
               ELSE [scored EXCEPT !.currentHealth = @ - 1, !.lives = @ - 1,
                                   !.state = "LIFE_LOST_DELAY", !.projectiles = <<>>,
                                   !.lifeLostDelayTimer = (3 * TicksPerSecond) \div 2]
\* checkGameConditions whose startWaveCompleteDelay leaves the projectiles
CheckGameConditions_KeepProjectiles(g, als, landing) ==
  IF AliveIds(als) = {}
  THEN [game |-> [g EXCEPT !.state = "WAVE_COMPLETE_DELAY",
                           !.waveCompleteDelayTimer = TicksPerSecond],
        aliens |-> als, landingActive |-> landing, landingStarted |-> FALSE]
  ELSE IF HasReachedDangerZone(als)
  THEN [game |-> [g EXCEPT !.state = "INVASION_LANDING", !.projectiles = <<>>],
        aliens |-> StartLanding(als), landingActive |-> TRUE, landingStarted |-> TRUE]
  ELSE [game |-> g, aliens |-> als, landingActive |-> landing, landingStarted |-> FALSE]

\* checkGameConditions returning at once when the game is no longer PLAYING
CheckGameConditions_PlayingOnly(g, als, landing) ==
  IF g.state # "PLAYING" THEN [game |-> g, aliens |-> als, landingActive |-> landing, landingStarted |-> FALSE]
  ELSE IF AliveIds(als) = {}
  THEN [game |-> [g EXCEPT !.state = "WAVE_COMPLETE_DELAY", !.projectiles = <<>>,
                           !.waveCompleteDelayTimer = TicksPerSecond],
        aliens |-> als, landingActive |-> landing, landingStarted |-> FALSE]
  ELSE IF HasReachedDangerZone(als)
  THEN [game |-> [g EXCEPT !.state = "INVASION_LANDING", !.projectiles = <<>>],
        aliens |-> StartLanding(als), landingActive |-> TRUE, landingStarted |-> TRUE]
  ELSE [game |-> g, aliens |-> als, landingActive |-> landing, landingStarted |-> FALSE]

\* Game.checkGameConditions with startWaveCompleteDelay and
\* startInvasionLanding: the Game, the aliens and the landing flag after it
CheckGameConditions(g, als, landing) ==
  IF AliveIds(als) = {}
  THEN [game |-> [g EXCEPT !.state = "WAVE_COMPLETE_DELAY", !.projectiles = <<>>,
                           !.waveCompleteDelayTimer = TicksPerSecond],
        aliens |-> als, landingActive |-> landing, landingStarted |-> FALSE]
  ELSE IF HasReachedDangerZone(als)
  THEN [game |-> [g EXCEPT !.state = "INVASION_LANDING", !.projectiles = <<>>],
        aliens |-> StartLanding(als), landingActive |-> TRUE, landingStarted |-> TRUE]
  ELSE [game |-> g, aliens |-> als, landingActive |-> landing, landingStarted |-> FALSE]

\* a place in mid-field, in bounds for either kind of projectile and away
\* from every alien, barrier and the player
StrayPoint == Vec(0, 140 * Tenths, -200 * Tenths)

\* The projectiles in flight when a frame checks its collisions, named by
\* what they are about to strike: "kill" is a player shot at the place of the
\* first alive alien, "hit" an alien shot at the player's feet, "away" a
\* player shot and "stray" an alien shot that are on their way in mid-field.
InFlight(flight, als, playerPos) ==
  LET alive == AliveIds(als)
      first == CHOOSE i \in alive : \A j \in alive : i <= j
      named == SelectSeq(flight, LAMBDA d : d # "kill" \/ alive # {})
  IN [k \in 1 .. Len(named) |->
        IF named[k] = "kill"
        THEN [type |-> "player", pos |-> InTenths(als[first].pos)]
        ELSE IF named[k] = "hit"
        THEN [type |-> "alien", pos |-> [playerPos EXCEPT !.y = 0]]
        ELSE IF named[k] = "away"
        THEN [type |-> "player", pos |-> StrayPoint]
        ELSE [type |-> "alien", pos |-> StrayPoint]]

\* Game.checkCollisions' removal of the destroyed projectiles: the owners
\* (types) of the projectiles of the list that stay in it, in order
Remaining(list, result) ==
  LET keep == InOrder({k \in 1 .. Len(list) :
                         \A n \in DOMAIN result.destroyedProjectiles :
                           result.destroyedProjectiles[n] # k})
  IN [j \in 1 .. Len(keep) |-> list[keep[j]].type]

\* how many projectiles of one owner a list of owners holds
OwnedBy(type, owners) == Cardinality({k \in DOMAIN owners : owners[k] = type})

\* The list that an intro frame checks is what is left of Game.projectiles
\* after the projectiles' moves and the out-of-bounds filter, with at most
\* one player shot more (firePlayerShot); nothing adds an alien shot
InIntroList(list, g) ==
  LET owners == [k \in DOMAIN list |-> list[k].type]
  IN /\ OwnedBy("alien", owners) <= OwnedBy("alien", g.projectiles)
     /\ OwnedBy("player", owners) <= OwnedBy("player", g.projectiles) + 1

\* One PLAYING frame, Game.update(deltaTime): the game clock, the formation
\* update with the player at playerPos (tenths), the strafe shots of the
\* divers, checkCollisions on the projectiles in flight, and
\* checkGameConditions.  The player's move and shot and the formation's
\* tryShoot change no field modelled here other than through playerPos and
\* the projectiles in flight.  lastOp records the frame: its shots are the
\* strafe shots, its collision the CollisionResult, promoted and landed the
\* aliens that the formation update sent diving and took back.
GameUpdate(dt, playerPos, rPick, rNext, flight) ==
  /\ game.state = "PLAYING"
  /\ \E gt \in {game.gameTime + dt} :
     \E f \in {FormationAfterUpdate(dt, playerPos.x \div Tenths, gt, rPick, rNext)} :
     \E strafe \in {GetDiveStrafeShots(f.aliens, currentWave, gt)} :
     \E projectiles \in {InFlight(flight, strafe.aliens, playerPos)} :
     \E r \in {CheckAll(projectiles, strafe.aliens, shields, playerPos)} :
     \E after \in {CheckGameConditions(
                     AfterCollisions([game EXCEPT
                                        !.gameTime = gt,
                                        !.projectiles = Remaining(projectiles, r.result)],
                                     r.result),
                     IF r.result.alienHits # <<>>
                     THEN UpdateAlienBrightness(r.aliens) ELSE r.aliens,
                     landingActive)} :
       /\ FormationBecomes([f EXCEPT !.aliens = after.aliens])
       /\ shields' = r.shields
       /\ game' = after.game
       /\ landingActive' = after.landingActive
       /\ \E draw \in LandingDrawSet :
            /\ landingTargets' = IF after.landingStarted
                                 THEN LandingTargets(r.aliens, draw)
                                 ELSE landingTargets
            /\ landingElapsedTime' = IF after.landingStarted THEN 0
                                     ELSE landingElapsedTime
       /\ lastOp' = [Quiet("frame") EXCEPT
                       !.dt = dt, !.elapsed = @ + dt, !.shots = strafe.shots,
                       !.promoted = {i \in AlienIds :
                                       ~IsDiving(aliens[i]) /\ IsDiving(f.aliens[i])},
                       !.landed = {i \in AlienIds :
                                     IsDiving(aliens[i]) /\ ~IsDiving(f.aliens[i])},
                       !.collision = [projectiles |-> projectiles, player |-> playerPos,
                                      result |-> r.result]]
  /\ UNCHANGED <<introActive, introElapsedTime>>

\* The restart input at GAME_OVER (handleKeyDown, handleTouchStart):
\* resetGame() and startGame(), which put back score, lives, health, wave,
\* game clock, shields and formation, and start the fly-in of the wave with
\* the spawn plan drawn by startIntro
Restart(plan) ==
  /\ game.state = "GAME_OVER"
  /\ game' = [NewGame EXCEPT !.state = "WAVE_INTRO"]
  /\ shields' = CreateShields(1)
  /\ aliens' = [i \in AlienIds |->
                  AlienStartFlyIn(FreshFormation[i], plan[i].startPos,
                                  GridPos(i, 0, -StartDistance),
                                  (Rows - 1 - GridY(i)) * RowDelayTicks + plan[i].randomDelay)]
  /\ formationX' = 0
  /\ formationZ' = -StartDistance
  /\ direction' = 1
  /\ moveTimer' = 0
  /\ currentWave' = 1
  /\ shootChance' = ShootChance(1)
  /\ diveTimer' = 0
  /\ nextDiveTime' = FirstDiveSeconds * TicksPerSecond
  /\ introActive' = TRUE
  /\ introElapsedTime' = 0
  /\ UNCHANGED <<playerX, currentGameTime, landingActive, landingElapsedTime,
                 landingTargets>>
  /\ lastOp' = [Quiet("restart") EXCEPT !.elapsed = 0, !.diveFrom = {}]

\* A frame of the animation loop while the game is over: animate() has no
\* branch for GAME_OVER, so only the frame is noted
\* the time an alien has been in its landing flight, in 1/400 s (negative
\* while it waits for its delay)
TimeSinceStart(elapsed, target) == elapsed * (LandingUnit \div TicksPerSecond) - target.delay

\* the alien has its flight behind it: "progress < 1" is false
Landed(elapsed, target) == TimeSinceStart(elapsed, target) >= LandingDuration

\* the position updateLanding gives an alien in flight: ease-out cubic toward
\* the slot, with an arc in y that fades as it lands
LandingPosition(elapsed, target) ==
  LET tss == TimeSinceStart(elapsed, target)
      u == LandingDuration - tss
      easeOutMilli == 1000 - (u * u * u) \div ((LandingDuration * LandingDuration
                                                * LandingDuration) \div 1000)
      tm == (tss * 1000) \div LandingDuration
      yArcMilli == SinPiMilli(tm) * LandingArcHeight
      Lerp(a, b) == a + ((b - a) * easeOutMilli) \div 1000
  IN Vec(Lerp(target.startPos.x, target.targetPos.x),
         Lerp(target.startPos.y, target.targetPos.y)
           + (yArcMilli * (1000 - tm)) \div 1000000,
         Lerp(target.startPos.z, target.targetPos.z))

\* updateLanding without the settle time: complete as soon as all have landed
UpdateLanding_NoSettle(dt, als, active, elapsed, targets) ==
  IF ~active
  THEN [aliens |-> als, landingActive |-> active, landingElapsedTime |-> elapsed,
        complete |-> TRUE]
  ELSE LET now == elapsed + dt
           complete == \A i \in AlienIds :
                         (targets[i].has /\ als[i].alive) => Landed(now, targets[i])
       IN [aliens |-> [i \in AlienIds |->
                         IF targets[i].has /\ als[i].alive /\ Landed(now, targets[i])
                         THEN [als[i] EXCEPT !.pos = targets[i].targetPos]
                         ELSE als[i]],
           landingActive |-> ~complete, landingElapsedTime |-> now,
           complete |-> complete]

\* AlienFormation.updateLanding: the aliens, the clock, the flag and the
\* value returned
UpdateLanding(dt, als, active, elapsed, targets) ==
  IF ~active
  THEN [aliens |-> als, landingActive |-> active, landingElapsedTime |-> elapsed,
        complete |-> TRUE]
  ELSE LET now == elapsed + dt
           moved == [i \in AlienIds |->
                       IF ~targets[i].has \/ ~als[i].alive THEN als[i]
                       ELSE IF TimeSinceStart(now, targets[i]) < 0 THEN als[i]
                       ELSE IF ~Landed(now, targets[i])
                       THEN [als[i] EXCEPT !.pos = LandingPosition(now, targets[i])]
                       ELSE [als[i] EXCEPT !.pos = targets[i].targetPos]]
           allLanded == \A i \in AlienIds :
                          (targets[i].has /\ als[i].alive) => Landed(now, targets[i])
           complete == allLanded /\ now * (LandingUnit \div TicksPerSecond) > LandingSettle
       IN [aliens |-> moved, landingActive |-> ~complete, landingElapsedTime |-> now,
           complete |-> complete]

\* Game.animate in the state INVASION_LANDING: updateLanding, and gameOver
\* once it reports complete
LandingFrame(dt) ==
  /\ game.state = "INVASION_LANDING"
  /\ \E u \in {UpdateLanding(dt, aliens, landingActive, landingElapsedTime,
                              landingTargets)} :
       /\ aliens' = u.aliens
       /\ landingActive' = u.landingActive
       /\ landingElapsedTime' = u.landingElapsedTime
       /\ game' = IF u.complete
                  THEN [game EXCEPT !.state = "GAME_OVER", !.projectiles = <<>>]
                  ELSE game
       /\ lastOp' = [Quiet("landing") EXCEPT !.dt = dt, !.returned = u.complete]
  /\ UNCHANGED <<formationX, formationZ, direction, moveTimer, currentWave,
                 shootChance, diveTimer, nextDiveTime, playerX, currentGameTime,
                 shields, introActive, introElapsedTime, landingTargets>>

GameOverFrame(dt) ==
  /\ game.state = "GAME_OVER"
  /\ UNCHANGED <<formVars, shields, gameVars>>
  /\ lastOp' = [Quiet("idle") EXCEPT !.dt = dt]

\* The game in play: the formation, shields and Game as they stand when a
\* wave's fly-in has ended, with the lives, health and game clock left by the
\* play before it
\* the state in which animate calls nextWave: every alien of the wave's
\* formation shot, the wave-complete tune played out
InitWaveComplete(wave) ==
  /\ InitFormationWith(wave, [i \in AlienIds |-> Hide(FreshFormation[i])])
  /\ shields = CreateShields(wave)
  /\ game = [NewGame EXCEPT !.state = "WAVE_COMPLETE", !.wave = wave]

\* Game.nextWave, with createShields, alienFormation.reset(wave) and startIntro
NextWaveOf(g, plan) ==
  /\ \E wave \in {g.wave + 1} :
       /\ game' = [g EXCEPT !.wave = wave, !.state = "WAVE_INTRO", !.projectiles = <<>>]
       /\ shields' = CreateShields(wave)
       /\ currentWave' = wave
       /\ shootChance' = ShootChance(wave)
  /\ aliens' = [i \in AlienIds |->
                  AlienStartFlyIn(FreshFormation[i], plan[i].startPos,
                                  GridPos(i, 0, -StartDistance),
                                  (Rows - 1 - GridY(i)) * RowDelayTicks + plan[i].randomDelay)]
  /\ formationX' = 0
  /\ formationZ' = -StartDistance
  /\ direction' = 1
  /\ moveTimer' = 0
  /\ diveTimer' = 0
  /\ nextDiveTime' = FirstDiveSeconds * TicksPerSecond
  /\ introActive' = TRUE
  /\ introElapsedTime' = 0
  /\ UNCHANGED <<playerX, currentGameTime, landingActive, landingElapsedTime,
                 landingTargets>>
  /\ lastOp' = [Quiet("nextWave") EXCEPT !.elapsed = 0, !.diveFrom = {}]

NextWave(plan) ==
  /\ game.state = "WAVE_COMPLETE"
  /\ NextWaveOf(game, plan)
\* a start that skips the intro and plays at once
StartGame_NoIntro(plan) ==
  /\ game.state = "MENU"
  /\ game' = [game EXCEPT !.state = "PLAYING"]
  /\ UNCHANGED <<formVars, shields, introActive, introElapsedTime, landingActive,
                 landingElapsedTime, landingTargets>>
  /\ lastOp' = Quiet("startGame")

\* Game.startGame from the menu: the intro of the formation built by the
\* constructor
StartGame(plan) ==
  /\ game.state = "MENU"
  /\ game' = [game EXCEPT !.state = "WAVE_INTRO"]
  /\ introActive' = TRUE
  /\ introElapsedTime' = 0
  /\ aliens' = [i \in AlienIds |->
                  AlienStartFlyIn(aliens[i], plan[i].startPos,
                                  GridPos(i, formationX, formationZ),
                                  (Rows - 1 - GridY(i)) * RowDelayTicks + plan[i].randomDelay)]
  /\ UNCHANGED <<formationX, formationZ, direction, moveTimer, currentWave,
                 shootChance, diveTimer, nextDiveTime, playerX, currentGameTime,
                 shields, landingActive, landingElapsedTime, landingTargets>>
  /\ lastOp' = Quiet("startGame")

\* Game.animate in the state WAVE_INTRO: the player's shots are checked
\* against the aliens, then updateIntro; the game plays once it is complete
IntroFrame(dt, flight) ==
  /\ game.state = "WAVE_INTRO"
  /\ InIntroList(InFlight(flight, aliens, PlayerHome), game)
  /\ \E projectiles \in {InFlight(flight, aliens, PlayerHome)} :
     \E r \in {CheckAll(projectiles, aliens, shields, PlayerHome)} :
     \E shot \in {IF r.result.alienHits # <<>>
                  THEN UpdateAlienBrightness(r.aliens) ELSE r.aliens} :
     \E g \in {AfterCollisions([game EXCEPT
                                  !.projectiles = Remaining(projectiles, r.result)],
                               r.result)} :
     \E u \in {UpdateIntroOf(dt, shot, introActive, introElapsedTime)} :
       /\ aliens' = u.aliens
       /\ shields' = r.shields
       /\ introActive' = u.introActive
       /\ introElapsedTime' = u.introElapsedTime
       /\ game' = IF u.complete THEN [g EXCEPT !.state = "PLAYING"] ELSE g
       /\ lastOp' = [Quiet("intro") EXCEPT
                       !.dt = dt, !.returned = u.complete,
                       !.dividedByZero = u.dividedByZero,
                       !.collision = [projectiles |-> projectiles, player |-> PlayerHome,
                                      result |-> r.result]]
  /\ UNCHANGED <<formationX, formationZ, direction, moveTimer, currentWave,
                 shootChance, diveTimer, nextDiveTime, playerX, currentGameTime,
                 landingActive, landingElapsedTime, landingTargets>>

\* Game.animate in the states WAVE_COMPLETE_DELAY and LIFE_LOST_DELAY: the
\* delay runs down, and once it is over and no explosion particle is left
\* the message and its tune of 5 s start (showWaveComplete, showLifeLost)
DelayFrame(dt, particles) ==
  /\ game.state \in {"WAVE_COMPLETE_DELAY", "LIFE_LOST_DELAY"}
  /\ game' = IF game.state = "WAVE_COMPLETE_DELAY"
             THEN LET g == [game EXCEPT !.waveCompleteDelayTimer = @ - dt]
                  IN IF g.waveCompleteDelayTimer <= 0 /\ ~particles
                     THEN [g EXCEPT !.state = "WAVE_COMPLETE",
                                    !.waveCompleteTuneTimer = 5 * TicksPerSecond]
                     ELSE g
             ELSE LET g == [game EXCEPT !.lifeLostDelayTimer = @ - dt]
                  IN IF g.lifeLostDelayTimer <= 0 /\ ~particles
                     THEN [g EXCEPT !.state = "LIFE_LOST",
                                    !.lifeLostTuneTimer = 5 * TicksPerSecond]
                     ELSE g
  /\ UNCHANGED <<formVars, shields, introActive, introElapsedTime, landingActive,
                 landingElapsedTime, landingTargets>>
  /\ lastOp' = [Quiet("delay") EXCEPT !.dt = dt]

\* Game.animate in the states WAVE_COMPLETE and LIFE_LOST: the tune runs
\* down, then nextWave or continueAfterLifeLost
TuneFrame(dt, plan) ==
  \/ /\ game.state = "WAVE_COMPLETE"
     /\ \E g \in {[game EXCEPT !.waveCompleteTuneTimer = @ - dt]} :
          IF g.waveCompleteTuneTimer <= 0
          THEN NextWaveOf(g, plan)
          ELSE /\ game' = g
               /\ UNCHANGED <<formVars, shields, introActive, introElapsedTime,
                              landingActive, landingElapsedTime, landingTargets>>
               /\ lastOp' = [Quiet("tune") EXCEPT !.dt = dt]
  \/ /\ game.state = "LIFE_LOST"
     /\ game' = LET g == [game EXCEPT !.lifeLostTuneTimer = @ - dt]
                IN IF g.lifeLostTuneTimer <= 0
                   THEN [g EXCEPT !.state = "PLAYING", !.currentHealth = HitsPerLife]
                   ELSE g
     /\ UNCHANGED <<formVars, shields, introActive, introElapsedTime,
                    landingActive, landingElapsedTime, landingTargets>>
     /\ lastOp' = [Quiet("tune") EXCEPT !.dt = dt]

InitPlaying(wave, lives, health, gameTime) ==
  /\ InitFormation(wave)
  /\ shields = CreateShields(wave)
  /\ game = [NewGame EXCEPT !.state = "PLAYING", !.wave = wave, !.lives = lives,
                            !.currentHealth = health, !.gameTime = gameTime]

\* ------------------------------------------------------- dive attacks
\* The calls used to explore the dive attacks: frame time (ticks; Game caps a
\* frame at 0.1 s), playerX, gameTime (ticks) and the two random draws
\* (1/1000) of each call.  Waves 25 and 26 are the last wave with one
\* concurrent diver and the first with two; wave 1, which schedules no dives,
\* is followed up to its first edge drop.
DiveCallSet == {<<1, -40, 0, 0, 0>>, <<2, 0, 30, 999, 999>>}
DiveWaveSet == {25, 26}

NextDive ==
  \/ /\ lastOp.elapsed < DiveMaxTicks
     /\ currentWave = 1 => formationZ = -StartDistance
     /\ \E c \in DiveCallSet : Update(c[1], c[2], c[3], c[4], c[5])
  \/ \E wave \in DiveWaveSet : Reset(wave)

SpecDive == Init /\ [][NextDive]_vars

\* ------------------------------------------------------ descent to depth
\* One frame time and one player position per call, at a wave with one diver
\* at a time, followed down until the squid rows stand at the retreat line.
DescentDtSet     == {2}
DescentRandomSet == {0, 999}
DescentWaveSet   == {25}

NextDescent ==
  \/ /\ Drops <= DescentMaxDrops
     /\ \E dt \in DescentDtSet, rPick \in DescentRandomSet : Update(dt, 0, 0, rPick, 0)
  \/ \E wave \in DescentWaveSet : Reset(wave)

SpecDescent == Init /\ [][NextDescent]_vars

\* ----------------------------------------------------------------- sweep
\* Wave 1: the formation sweeps and drops while the player shoots aliens of
\* the rightmost column in any order.
SweepDtSet   == {2}
SweepTargets == {i \in AlienIds : GridX(i) = Columns - 1}

NextSweep ==
  \/ /\ Drops <= SweepMaxDrops
     /\ \E dt \in SweepDtSet : Update(dt, 0, 0, 0, 0)
  \/ \E i \in SweepTargets : Kill(i)

SpecSweep == Init /\ [][NextSweep]_vars

\* ----------------------------------------------------------------- shots
\* Wave 25: the front aliens fire while the player shoots aliens of column 0
\* in any order and squids leave on dives; lucky is the set of aliens whose
\* random draw falls below shootChance.
ShootDtSet     == {2}
ShootWaveSet   == {25}
ShootRandomSet == {0, 999}
ShootTargets   == {i \in AlienIds : GridX(i) = 0}
ShootLuckySet  == {AlienIds, {i \in AlienIds : GridY(i) >= 3}}

NextShoot ==
  \/ /\ currentWave > 1
     /\ lastOp.elapsed < ShootMaxTicks
     /\ \E dt \in ShootDtSet, rPick \in ShootRandomSet : Update(dt, 0, 0, rPick, 0)
  \/ \E wave \in ShootWaveSet : Reset(wave)
  \/ \E i \in ShootTargets : Kill(i)
  \/ \E lucky \in ShootLuckySet : TryShoot(lucky)

SpecShoot == Init /\ [][NextShoot]_vars

\* ---------------------------------------------------------------- shield
\* The checkHit calls used to explore one barrier: a point level with the
\* lattice midway between cells 14 and 15 of shield 1 (27 tenths from each, 48
\* from cells 9 and 20 below and above), and a point 50 tenths in front of
\* cell 29, which a projectile of radius 0.7 reaches and one of radius 0.5
\* does not; the two projectile radii; no damage, the alien shot's 1, and two
\* amounts above 1.  The barriers start at the health of waves 1, 50 and 100
\* (3, 2 and 1).
TiePoint   == [CellPos(1, 14) EXCEPT !.x = @ + HexWidth \div 2]
FrontPoint == [CellPos(1, 29) EXCEPT !.z = @ + HitReach + PlayerRadius]

ShieldPointSet  == {TiePoint, FrontPoint}
ShieldRadiusSet == {PlayerRadius, AlienRadius}
ShieldDamageSet == {0, AlienShotDamage, 2, PlayerShotDamage}
ShieldTargetSet == {1, 2}
ShieldWaveSet   == {1, 50, 100}

\* Game at the start of wave w: createShields and alienFormation.reset(w)
InitShield ==
  \E wave \in ShieldWaveSet :
    /\ InitFormation(wave)
    /\ shields = CreateShields(wave)
    /\ game = [NewGame EXCEPT !.wave = wave]

NextShield ==
  \E s \in ShieldTargetSet, point \in ShieldPointSet,
     radius \in ShieldRadiusSet, damage \in ShieldDamageSet :
    ShieldCheckHit(s, point, radius, damage)

SpecShield == InitShield /\ [][NextShield]_vars

\* ------------------------------------------------------------- collision
\* The checkAll calls used to explore collisions.  In play an alien keeps
\* StartHeight or dives beyond RetreatZ, out of reach of any barrier, so the
\* aliens 0 and 1 are also placed by setPosition beside shield 1, where one
\* player shot at TiePoint overlaps them and is in reach of barrier cells.
\* The projectiles: a player shot and an alien shot at TiePoint, a player shot
\* midway between aliens 0 and 1 in the fresh formation, and an alien shot at
\* the player's start, which hits a player there and misses one 40 units to
\* the right.  The lists are all lists of one or two of them; the player
\* stands at its start, and also 40 units to the right for the lists that
\* hold the shot at the player's start.
CollisionPlaceSet == {Vec(-74, 10, -100)}
CollisionMovers   == {0, 1}
CollisionPlayerSet == {PlayerHome, [PlayerHome EXCEPT !.x = 40 * Tenths]}

ProjectileSet ==
  {[type |-> "player", pos |-> TiePoint],
   [type |-> "alien",  pos |-> TiePoint],
   [type |-> "player", pos |-> Vec(0, StartHeight * Tenths, -StartDistance * Tenths)],
   [type |-> "alien",  pos |-> Vec(0, 0, PlayerZ * Tenths)]}

ProjectileLists ==
  {<<p>> : p \in ProjectileSet} \cup {<<p, q>> : p \in ProjectileSet, q \in ProjectileSet}

CollisionCallSet ==
  {c \in ProjectileLists \X CollisionPlayerSet :
     \/ c[2] = PlayerHome
     \/ \E k \in DOMAIN c[1] : c[1][k].pos.z = PlayerZ * Tenths}

NextCollision ==
  \/ \E i \in CollisionMovers, pos \in CollisionPlaceSet : SetPosition(i, pos)
  \/ \E c \in CollisionCallSet : CheckCollisions(c[1], c[2])

SpecCollision == Init /\ [][NextCollision]_vars

\* ------------------------------------------------------------- claims
DivingIds == {i \in AlienIds : aliens[i].alive /\ aliens[i].diveState = "DIVING"}

\* dive travel of the last frame, in units
FrameTravel == (DiveSpeed * lastOp.dt) \div TicksPerSecond

\* C1: after every update, an alive DIVING alien is never past the retreat
\* line by more than one frame of dive travel, and none is at or past the
\* line at all: one found there is RETURNING when the update ends.
C1_DiveDepth ==
  \A i \in DivingIds :
    /\ aliens[i].pos.z <= RetreatZ + FrameTravel
    /\ aliens[i].pos.z < RetreatZ

\* an update promoted a squid that stood past the retreat line and sent it back
C1_Witness ==
  /\ lastOp.op = "update"
  /\ \E i \in lastOp.promoted :
       /\ aliens[i].alive
       /\ aliens[i].diveState = "RETURNING"
       /\ aliens[i].diveStartPos.z > RetreatZ
       /\ aliens[i].pos = aliens[i].diveStartPos

\* floor(1 + 4 * min((wave - 1) / 99, 1))
C2_Cap(wave) == (99 + 4 * Min(wave - 1, 99)) \div 99

C2_Away(als) == {i \in AlienIds : als[i].alive /\ als[i].diveState \in {"DIVING", "RETURNING"}}

\* C2: the alive aliens that are DIVING or RETURNING never outnumber the
\* wave's cap, there are none in wave 1, and a step promotes at most one
\* alien, and only when fewer than the cap were away before it.
C2_DiverCap ==
  /\ [](/\ Cardinality(C2_Away(aliens)) <= C2_Cap(currentWave)
        /\ currentWave = 1 => C2_Away(aliens) = {})
  /\ [][LET promoted == {i \in AlienIds :
                           aliens[i].diveState = "NONE" /\ aliens'[i].diveState # "NONE"}
        IN /\ Cardinality(promoted) <= 1
           /\ promoted # {} => Cardinality(C2_Away(aliens)) < C2_Cap(currentWave)]_vars

\* the update that brought the second diver of wave 26 out, filling the cap
C2_Witness ==
  /\ lastOp.op = "update"
  /\ lastOp.fired
  /\ lastOp.promoted # {}
  /\ C2_Cap(currentWave) = 2
  /\ Cardinality(C2_Away(aliens)) = 2

\* C3: an alien whose dive state goes from RETURNING to NONE stands, in that
\* state, exactly at its grid-derived position under the formation's current
\* offset and depth.
C3_RoundTrip ==
  [][\A i \in AlienIds :
       (/\ aliens[i].diveState = "RETURNING"
        /\ aliens'[i].diveState = "NONE"
        /\ aliens'[i].alive)
       => aliens'[i].pos = GridPos(i, formationX', formationZ')]_vars

\* an alien back from a full dive during which the formation swept and dropped
C3_Witness ==
  /\ lastOp.op = "update"
  /\ \E e \in lastOp.diveFrom :
       /\ e.id \in lastOp.landed
       /\ aliens[e.id].alive
       /\ aliens[e.id].diveState = "NONE"
       /\ e.fx # formationX
       /\ e.fz < formationZ
       /\ e.fz - GridY(e.id) * SpacingZ < RetreatZ
       /\ aliens[e.id].pos = GridPos(e.id, formationX, formationZ)

\* grid-derived x of alien i under formation offset fx
C4_GridX(i, fx) == -(((Columns - 1) * SpacingX) \div 2) + GridX(i) * SpacingX + fx

C4_Within(als, fx) ==
  \A i \in AlienIds : als[i].alive =>
     C4_GridX(i, fx) >= -EdgeMargin /\ C4_GridX(i, fx) <= EdgeMargin

\* C4: the grid-derived x of every alive alien stays within the edge margin,
\* and a sweep step whose shift would carry an alive alien past the margin
\* reverses the direction, drops the formation once and leaves formationX as
\* it was; any other step shifts, without a drop or a turn.
C4_SweepWithinMargin ==
  /\ []C4_Within(aliens, formationX)
  /\ [][(lastOp'.op = "update" /\ lastOp'.step # "none") =>
          IF C4_Within(aliens, formationX + BaseSpeed * direction)
          THEN /\ formationX' = formationX + BaseSpeed * direction
               /\ formationZ' = formationZ
               /\ direction' = direction
          ELSE /\ formationX' = formationX
               /\ formationZ' = formationZ + DropDistance
               /\ direction' = -direction]_vars

\* a flip at the left edge, with an alien of the rightmost column dead: the
\* shift would have carried an alive alien past the left margin
C4_Witness ==
  /\ lastOp.op = "update"
  /\ lastOp.step = "flip"
  /\ direction = 1
  /\ Drops = 2
  /\ \E i \in AlienIds : ~aliens[i].alive
  /\ \E i \in AlienIds : aliens[i].alive /\ C4_GridX(i, formationX - BaseSpeed) < -EdgeMargin

C7_Blocked(i) ==
  \E j \in AlienIds :
    aliens[j].alive /\ j # i /\ GridX(j) = GridX(i) /\ GridY(j) < GridY(i)

\* C7: every shot that tryShoot returned comes from an alive alien with no
\* other alive alien, diving or not, in its column at a smaller row, and no
\* two of the shots come from the same column.
C7_FrontShots ==
  /\ \A k \in 1 .. Len(lastOp.shots) :
       /\ aliens[lastOp.shots[k].from].alive
       /\ ~C7_Blocked(lastOp.shots[k].from)
  /\ \A k, l \in 1 .. Len(lastOp.shots) :
       k # l => GridX(lastOp.shots[k].from) # GridX(lastOp.shots[l].from)

\* a squid fired while the squid in front of it was away on a dive and the
\* rows in front of both were dead: the diver is the front alien and fired too
C7_Witness ==
  /\ lastOp.op = "tryShoot"
  /\ \E k \in 1 .. Len(lastOp.shots) :
       LET i == lastOp.shots[k].from
       IN /\ IsDiving(aliens[i])
          /\ GridY(i) = 3
          /\ \E j \in AlienIds :
               aliens[j].alive /\ GridX(j) = GridX(i) /\ GridY(j) = 4

\* the cells within checkHit's reach of the last call's point
InReach(s, point, radius) ==
  {c \in CellIds :
     DistSq(point, CellPos(s, c)) < (HitReach + radius) * (HitReach + radius)}

\* C8: after construction and after any sequence of checkHit calls, every
\* barrier cell with health <= 0 has alive = FALSE, and the hit cell of a
\* checkHit is a cell that was alive when the call was made.
C8_DeadStaysOut ==
  /\ [](\A s \in ShieldIds, c \in CellIds :
          shields[s][c].health <= 0 => ~shields[s][c].alive)
  /\ [][lastOp'.op = "checkHit" /\ lastOp'.hit.hit
          => shields[lastOp'.hit.shield][lastOp'.hit.cell].alive]_vars

\* a hit landed on a cell although a dead cell lay in reach at least as near
C8_Witness ==
  /\ lastOp.op = "checkHit"
  /\ lastOp.hit.hit
  /\ \E d \in InReach(lastOp.hit.shield, lastOp.hit.point, lastOp.hit.radius) :
       /\ ~shields[lastOp.hit.shield][d].alive
       /\ shields[lastOp.hit.shield][d].health <= 0
       /\ d # lastOp.hit.cell
       /\ DistSq(lastOp.hit.point, CellPos(lastOp.hit.shield, d))
            <= DistSq(lastOp.hit.point, CellPos(lastOp.hit.shield, lastOp.hit.cell))

\* C9: across any sequence of checkHit calls, no cell's health increases and
\* no cell goes from alive = FALSE back to alive = TRUE.
C9_HealthNeverRises ==
  [][\A s \in ShieldIds, c \in CellIds :
       /\ shields'[s][c].health <= shields[s][c].health
       /\ ~shields[s][c].alive => ~shields'[s][c].alive]_vars

\* a second hit of damage 1 on the same cell: it stands two below full health
C9_Witness ==
  /\ lastOp.op = "checkHit"
  /\ lastOp.hit.hit
  /\ lastOp.hit.damage = AlienShotDamage
  /\ shields[lastOp.hit.shield][lastOp.hit.cell].alive
  /\ shields[lastOp.hit.shield][lastOp.hit.cell].health
       = shields[lastOp.hit.shield][lastOp.hit.cell].maxHealth - 2

\* the cells within hexRadius * playerDamageRadius of each cell's position
BlastCells ==
  [s \in ShieldIds |->
     [c \in CellIds |->
        {d \in CellIds :
           DistSq(CellPos(s, c), CellPos(s, d)) <=
             (HexRadius * PlayerDamageRadius * Tenths) * (HexRadius * PlayerDamageRadius * Tenths)}]]

InBlast(s, c) == BlastCells[s][c]

Overlapped(p, als) == {i \in AlienIds : als[i].alive /\ Overlaps(p, als, i)}

\* p is within checkHit's reach of an alive cell of some barrier
InCellReach(p, shs) ==
  \E s \in ShieldIds : ClosestCell(shs[s], s, p.pos, ProjectileRadius(p.type)) # 0

\* C5: a player projectile that overlaps an alive alien and lies within hit
\* range of an alive barrier cell resolves as an alien kill only: the alien is
\* dead afterwards, the projectile is spent, and it changes no barrier cell.
\* Stated of the first projectile of a checkAll call, whose targets are those
\* of the state the call starts in; a call of that projectile alone leaves
\* every barrier as it was.
C5_AlienKillOnly ==
  [][/\ lastOp'.op = "checkAll"
     /\ lastOp'.collision.projectiles[1].type = "player"
     /\ Overlapped(lastOp'.collision.projectiles[1], aliens) # {}
     /\ InCellReach(lastOp'.collision.projectiles[1], shields)
     => /\ \E i \in Overlapped(lastOp'.collision.projectiles[1], aliens) :
             /\ ~aliens'[i].alive
             /\ lastOp'.collision.result.alienHits[1].alien = i
             /\ lastOp'.collision.result.resolved[1] = {[kind |-> "alien", id |-> i]}
        /\ lastOp'.collision.result.destroyedProjectiles[1] = 1
        /\ Len(lastOp'.collision.projectiles) = 1
             => /\ shields' = shields
                /\ lastOp'.collision.result.shieldHits = <<>>
                /\ lastOp'.collision.result.destroyedProjectiles = <<1>>]_vars

\* a lone player shot killed an alien where it was also in reach of an alive
\* barrier cell, and no barrier was hit
C5_Witness ==
  /\ lastOp.op = "checkAll"
  /\ Len(lastOp.collision.projectiles) = 1
  /\ lastOp.collision.projectiles[1].type = "player"
  /\ Len(lastOp.collision.result.alienHits) = 1
  /\ lastOp.collision.result.shieldHits = <<>>
  /\ InCellReach(lastOp.collision.projectiles[1], shields)
  /\ ~aliens[lastOp.collision.result.alienHits[1].alien].alive

\* how often projectile k stands in the list of destroyed projectiles
TimesDestroyed(result, k) ==
  Cardinality({j \in DOMAIN result.destroyedProjectiles : result.destroyedProjectiles[j] = k})

\* C6: in one checkAll call every projectile resolves against at most one
\* target and appears at most once in destroyedProjectiles; the aliens that
\* die are those of alienHits, one per entry; and a first player projectile
\* that overlaps several alive aliens kills only the first in array order.
C6_OneTargetEach ==
  [][lastOp'.op = "checkAll"
     => /\ Len(lastOp'.collision.result.resolved) = Len(lastOp'.collision.projectiles)
        /\ \A k \in DOMAIN lastOp'.collision.projectiles :
             /\ Cardinality(lastOp'.collision.result.resolved[k]) <= 1
             /\ TimesDestroyed(lastOp'.collision.result, k)
                  = Cardinality(lastOp'.collision.result.resolved[k])
        /\ Len(lastOp'.collision.result.alienHits) + Len(lastOp'.collision.result.shieldHits)
             <= Len(lastOp'.collision.result.destroyedProjectiles)
        /\ {i \in AlienIds : aliens[i].alive /\ ~aliens'[i].alive}
             = {lastOp'.collision.result.alienHits[j].alien :
                  j \in DOMAIN lastOp'.collision.result.alienHits}
        /\ Cardinality({i \in AlienIds : aliens[i].alive /\ ~aliens'[i].alive})
             = Len(lastOp'.collision.result.alienHits)
        /\ /\ lastOp'.collision.projectiles[1].type = "player"
           /\ Overlapped(lastOp'.collision.projectiles[1], aliens) # {}
           => /\ \A j \in Overlapped(lastOp'.collision.projectiles[1], aliens) :
                   lastOp'.collision.result.alienHits[1].alien <= j
              /\ lastOp'.collision.result.alienHits[1].alien
                   \in Overlapped(lastOp'.collision.projectiles[1], aliens)
              /\ Len(lastOp'.collision.projectiles) = 1
                   => Len(lastOp'.collision.result.alienHits) = 1]_vars

\* a call of two projectiles that spent both, the first a player shot that
\* killed an alien and still overlaps a later alive alien
C6_Witness ==
  /\ lastOp.op = "checkAll"
  /\ Len(lastOp.collision.projectiles) = 2
  /\ Len(lastOp.collision.result.destroyedProjectiles) = 2
  /\ lastOp.collision.projectiles[1].type = "player"
  /\ lastOp.collision.result.resolved[1] # {}
  /\ \A t \in lastOp.collision.result.resolved[1] : t.kind = "alien"
  /\ \E j \in Overlapped(lastOp.collision.projectiles[1], aliens) :
       j > lastOp.collision.result.alienHits[1].alien

\* C11: a checkHit with damage 1 that finds a hit cell lowers that cell's
\* health by exactly 1, leaves it alive exactly when health is still above 0,
\* and leaves every other cell of every barrier unchanged; cells are created
\* alive at full health, so a cell of health h dies at the h-th such hit.
C11_SingleCellDamage ==
  /\ [](\A s \in ShieldIds, c \in CellIds :
          shields[s][c].alive => shields[s][c].health >= 1)
  /\ [][lastOp'.op = "checkHit" /\ lastOp'.hit.hit /\ lastOp'.hit.damage = AlienShotDamage
          => /\ shields[lastOp'.hit.shield][lastOp'.hit.cell].alive
             /\ \A s \in ShieldIds, c \in CellIds :
                  IF s = lastOp'.hit.shield /\ c = lastOp'.hit.cell
                  THEN /\ shields'[s][c].health = shields[s][c].health - 1
                       /\ shields'[s][c].maxHealth = shields[s][c].maxHealth
                       /\ shields'[s][c].alive = (shields[s][c].health - 1 > 0)
                  ELSE shields'[s][c] = shields[s][c]]_vars

\* a damage-1 hit took the last health point of a cell created with health 3
\* while another cell in reach of the same point is still at full health
C11_Witness ==
  /\ lastOp.op = "checkHit"
  /\ lastOp.hit.hit
  /\ lastOp.hit.damage = AlienShotDamage
  /\ shields[lastOp.hit.shield][lastOp.hit.cell].maxHealth = 3
  /\ shields[lastOp.hit.shield][lastOp.hit.cell].health = 0
  /\ ~shields[lastOp.hit.shield][lastOp.hit.cell].alive
  /\ \E d \in InReach(lastOp.hit.shield, lastOp.hit.point, lastOp.hit.radius) :
       /\ shields[lastOp.hit.shield][d].alive
       /\ shields[lastOp.hit.shield][d].health = 3

\* ---- alien shots against barriers and player ----
\* checkAll on lists of one or two alien shots: one at TiePoint inside
\* barrier 1, one at the player's start on the ground and one high above it.
\* The player stands at its start, 87 tenths (8 + the shot's radius) and 77
\* tenths to the right of it, and, as an argument of checkAll only, at the
\* barrier under TiePoint: PlayerTurret.update keeps the turret's depth within
\* [-85, -50], from where no point in reach of a barrier cell is in its hit
\* radius.
AlienShotSet ==
  {[type |-> "alien", pos |-> TiePoint],
   [type |-> "alien", pos |-> Vec(0, 0, PlayerZ * Tenths)],
   [type |-> "alien", pos |-> Vec(0, 60 * Tenths, PlayerZ * Tenths)]}

AlienShotLists ==
  {<<p>> : p \in AlienShotSet} \cup {<<p, q>> : p \in AlienShotSet, q \in AlienShotSet}

AlienShotPlayerSet ==
  {PlayerHome,
   [PlayerHome EXCEPT !.x = PlayerHitRadius * Tenths + AlienRadius],
   [PlayerHome EXCEPT !.x = PlayerHitRadius * Tenths + AlienRadius - Tenths],
   [PlayerHome EXCEPT !.x = TiePoint.x, !.z = TiePoint.z]}

AlienShotCallSet ==
  {c \in AlienShotLists \X AlienShotPlayerSet :
     \/ c[2] = PlayerHome
     \/ \E k \in DOMAIN c[1] : c[1][k].pos.z = c[2].z}

NextAlienShot == \E c \in AlienShotCallSet : CheckCollisions(c[1], c[2])

SpecAlienShot == InitShield /\ [][NextAlienShot]_vars

\* the barriers that checkAlienProjectile's loop would find hit by p: the
\* point is inside the bounding box and an alive cell is in checkHit's reach
BarriersHit(p, shs) ==
  {s \in ShieldIds : /\ InBoundingBox(s, p.pos)
                     /\ ClosestCell(shs[s], s, p.pos, ProjectileRadius(p.type)) # 0}

\* squared distance in the horizontal (x, z) plane, tenths
HorizontalDistSq(a, b) == (a.x - b.x) * (a.x - b.x) + (a.z - b.z) * (a.z - b.z)

\* p lies strictly within 8 + its radius of the player in the horizontal plane
InPlayerRadius(p, playerPos) ==
  HorizontalDistSq(p.pos, playerPos)
    < (PlayerHitRadius * Tenths + ProjectileRadius(p.type))
        * (PlayerHitRadius * Tenths + ProjectileRadius(p.type))

\* the cells of barrier s whose record differs between two states of it
CellsChanged(before, after, s) == {c \in CellIds : before[s][c] # after[s][c]}

\* C12: an alien projectile is tested against the barriers before the player.
\* One that hits an alive barrier cell is spent on that barrier (a shieldHits
\* entry that is not a player shot, one cell one health point down) and does
\* not count as a player hit, even within the player's hit radius; only a
\* projectile no barrier absorbed can set playerHit.  The barrier part is
\* stated of the first projectile of a call, whose targets are those of the
\* state the call starts in.
C12_BarrierBeforePlayer ==
  [][lastOp'.op = "checkAll"
     => /\ \A k \in DOMAIN lastOp'.collision.projectiles :
             lastOp'.collision.projectiles[k].type = "alien"
             => \/ lastOp'.collision.result.resolved[k] = {}
                \/ lastOp'.collision.result.resolved[k] = {[kind |-> "player", id |-> 0]}
                \/ \E s \in ShieldIds :
                     lastOp'.collision.result.resolved[k] = {[kind |-> "shield", id |-> s]}
        /\ lastOp'.collision.result.playerHit
             <=> \E k \in DOMAIN lastOp'.collision.projectiles :
                   [kind |-> "player", id |-> 0] \in lastOp'.collision.result.resolved[k]
        /\ /\ lastOp'.collision.projectiles[1].type = "alien"
           /\ BarriersHit(lastOp'.collision.projectiles[1], shields) # {}
           => /\ \E s \in BarriersHit(lastOp'.collision.projectiles[1], shields) :
                   /\ lastOp'.collision.result.resolved[1] = {[kind |-> "shield", id |-> s]}
                   /\ lastOp'.collision.result.shieldHits[1].shield = s
                   /\ ~lastOp'.collision.result.shieldHits[1].isPlayerShot
                   /\ Len(lastOp'.collision.projectiles) = 1
                        => /\ \E c \in CellIds :
                                /\ CellsChanged(shields, shields', s) = {c}
                                /\ shields'[s][c].health = shields[s][c].health - AlienShotDamage
                           /\ \A t \in ShieldIds \ {s} : shields'[t] = shields[t]
              /\ lastOp'.collision.result.destroyedProjectiles[1] = 1
              /\ Len(lastOp'.collision.projectiles) = 1
                   => ~lastOp'.collision.result.playerHit
        /\ /\ lastOp'.collision.projectiles[1].type = "alien"
           /\ BarriersHit(lastOp'.collision.projectiles[1], shields) = {}
           /\ Len(lastOp'.collision.projectiles) = 1
           => /\ shields' = shields
              /\ lastOp'.collision.result.shieldHits = <<>>]_vars

\* a lone alien shot within the player's hit radius was spent on a barrier
\* cell and did not hit the player
C12_Witness ==
  /\ lastOp.op = "checkAll"
  /\ Len(lastOp.collision.projectiles) = 1
  /\ lastOp.collision.projectiles[1].type = "alien"
  /\ InPlayerRadius(lastOp.collision.projectiles[1], lastOp.collision.player)
  /\ Len(lastOp.collision.result.shieldHits) = 1
  /\ ~lastOp.collision.result.shieldHits[1].isPlayerShot
  /\ ~lastOp.collision.result.playerHit
  /\ lastOp.collision.result.destroyedProjectiles = <<1>>

\* C13: an alien projectile that no barrier absorbs hits the player exactly
\* when its horizontal (x, z) distance to the player is strictly less than
\* 8 + the projectile's radius, whatever its height.  Stated of the first
\* projectile of a call; a call of that projectile alone reports playerHit
\* exactly then.
C13_HorizontalPlayerHit ==
  [][/\ lastOp'.op = "checkAll"
     /\ lastOp'.collision.projectiles[1].type = "alien"
     /\ BarriersHit(lastOp'.collision.projectiles[1], shields) = {}
     => /\ ([kind |-> "player", id |-> 0] \in lastOp'.collision.result.resolved[1])
             <=> InPlayerRadius(lastOp'.collision.projectiles[1], lastOp'.collision.player)
        /\ Len(lastOp'.collision.projectiles) = 1
             => /\ lastOp'.collision.result.playerHit
                     <=> InPlayerRadius(lastOp'.collision.projectiles[1],
                                        lastOp'.collision.player)
                /\ lastOp'.collision.result.destroyedProjectiles
                     = IF lastOp'.collision.result.playerHit THEN <<1>> ELSE <<>>]_vars

\* a lone alien shot one unit inside the boundary hit the player although it
\* was more than 8 + radius away from the turret in space
C13_Witness ==
  /\ lastOp.op = "checkAll"
  /\ Len(lastOp.collision.projectiles) = 1
  /\ lastOp.collision.projectiles[1].type = "alien"
  /\ lastOp.collision.result.playerHit
  /\ HorizontalDistSq(lastOp.collision.projectiles[1].pos, lastOp.collision.player)
       = (PlayerHitRadius * Tenths + AlienRadius - Tenths)
           * (PlayerHitRadius * Tenths + AlienRadius - Tenths)
  /\ DistSq(lastOp.collision.projectiles[1].pos, lastOp.collision.player)
       > (PlayerHitRadius * Tenths + AlienRadius) * (PlayerHitRadius * Tenths + AlienRadius)

\* a lone alien shot at exactly 8 + radius from the player missed it
C13_AtBoundary ==
  /\ lastOp.op = "checkAll"
  /\ Len(lastOp.collision.projectiles) = 1
  /\ lastOp.collision.projectiles[1].type = "alien"
  /\ ~lastOp.collision.result.playerHit
  /\ HorizontalDistSq(lastOp.collision.projectiles[1].pos, lastOp.collision.player)
       = (PlayerHitRadius * Tenths + AlienRadius) * (PlayerHitRadius * Tenths + AlienRadius)

\* ----------------------------------------------------------------- intro
\* The intros explored: every alien from the top of the field, (0, 150, -600),
\* with no random delay; and the aliens of column 0 from the left,
\* (-250, 120, -500), those of the other columns from the right,
\* (250, 120, -500), each with a random delay of one tick.  Frames of one and
\* two ticks in any order.  Right after startIntro the last squid is also sent,
\* by startFlyIn, on a flight that starts at its target.
PlanTop ==
  [i \in AlienIds |-> [startPos |-> Vec(0, 150, -600), randomDelay |-> 0]]

PlanSides ==
  [i \in AlienIds |->
     [startPos |-> IF GridX(i) = 0 THEN Vec(-250, 120, -500) ELSE Vec(250, 120, -500),
      randomDelay |-> 1]]

IntroPlanSet == {PlanTop, PlanSides}
IntroDtSet   == {1, 2}
IntroStayers == {Rows * Columns - 1}

NextIntro ==
  \/ /\ ~introActive
     /\ introElapsedTime = 0
     /\ \E plan \in IntroPlanSet : StartIntro(plan)
  \/ /\ introActive
     /\ introElapsedTime = 0
     /\ lastOp.op = "startIntro"
     /\ \E i \in IntroStayers :
          StartFlyIn(i, aliens[i].formationPos, aliens[i].formationPos, aliens[i].flyInDelay)
  \/ /\ introElapsedTime > 0 \/ introActive
     /\ \E dt \in IntroDtSet : UpdateIntro(dt)

SpecIntro == Init /\ [][NextIntro]_vars

\* at intro time e (ticks) alien i's delay plus its flight duration,
\* distance / flySpeed, has passed or is just reached
FlightDue(i, e) ==
  /\ e >= aliens[i].flyInDelay
  /\ ((FlySpeed * (e - aliens[i].flyInDelay)) \div TicksPerSecond)
       * ((FlySpeed * (e - aliens[i].flyInDelay)) \div TicksPerSecond)
       >= DistSq(aliens[i].flyInStartPos, aliens[i].formationPos)

IntroDue(e) == \A i \in AlienIds : FlightDue(i, e)

\* C14: after startIntro, updateIntro returns complete on exactly the first
\* call at which the accumulated intro time has passed delay + flight duration
\* for every alien: a call of a running intro returns complete if and only if
\* that time is reached at that call, for any sequence of frame times.
C14_CompleteOnDueCall ==
  [][lastOp'.op = "updateIntro" /\ introActive
     => (lastOp'.returned <=> IntroDue(introElapsedTime'))]_vars

\* updateIntro never returns complete before that time is reached
C14_NeverEarly ==
  [][lastOp'.op = "updateIntro" /\ introActive /\ lastOp'.returned
     => IntroDue(introElapsedTime')]_vars

\* a call of a running intro at which every alien's delay plus flight
\* duration had passed did not return complete
C14_Late ==
  /\ lastOp.op = "updateIntro"
  /\ introActive
  /\ ~lastOp.returned
  /\ IntroDue(introElapsedTime)

\* alien i is in flight towards a target that is its spawn point
ZeroFlight(i) ==
  /\ aliens[i].flyInState = "FLYING"
  /\ DistSq(aliens[i].flyInStartPos, aliens[i].formationPos) = 0

StartDiveTargets  == {0, Columns, 4 * Columns}
StartDiveMovers   == {4 * Columns}
StartDivePlaceSet == {Vec(StartX, StartHeight, RetreatZ)}
StartDiveCallSet  == {<<40, 7>>}
StartDiveWaveSet  == {25}
StartDiveDtSet    == {1, 2}

NextStartDive ==
  \/ /\ currentWave > 1
     /\ lastOp.elapsed < StartDiveMaxTicks
     /\ \E dt \in StartDiveDtSet : Update(dt, 0, 0, 0, 0)
  \/ \E wave \in StartDiveWaveSet : currentWave = 1 /\ Reset(wave)
  \/ \E i \in StartDiveMovers, pos \in StartDivePlaceSet :
       /\ currentWave > 1
       /\ ~IsDiving(aliens[i])
       /\ aliens[i].pos # pos
       /\ SetPosition(i, pos)
  \/ \E i \in StartDiveTargets, c \in StartDiveCallSet :
       currentWave > 1 /\ AlienStartDive(i, c[1], c[2])

SpecStartDive == Init /\ [][NextStartDive]_vars

\* C17: startDive on an alien that is not a squid, or that is already DIVING
\* or RETURNING, changes no field of any alien (dive state, progress, start
\* position, target X, last-shot time, brightness); and no alien other than a
\* squid is ever in a dive state.
C17_StartDiveNoOp ==
  /\ [](\A i \in AlienIds : AlienType(i) # "squid" => aliens[i].diveState = "NONE")
  /\ [][/\ lastOp'.op = "startDive"
        /\ \/ AlienType(lastOp'.target) # "squid"
           \/ aliens[lastOp'.target].diveState # "NONE"
        => aliens' = aliens]_vars

\* startDive was last called on a squid that is on its way back, with a target
\* and a time other than those of its dive, and it is still on its way back
C17_Witness ==
  /\ lastOp.op = "startDive"
  /\ AlienType(lastOp.target) = "squid"
  /\ aliens[lastOp.target].diveState = "RETURNING"
  /\ \A c \in StartDiveCallSet : aliens[lastOp.target].diveTargetX = c[1]
  /\ aliens[lastOp.target].diveProgress > 0

\* startDive was last called on a bug, which stands in formation
C17_NonSquid ==
  /\ lastOp.op = "startDive"
  /\ AlienType(lastOp.target) = "bug"
  /\ aliens[lastOp.target].diveState = "NONE"

\* the dive and return guards of C18: a dive that starts at the retreat depth
\* is RETURNING, and a return that starts at the formation position is over,
\* after the update that takes them up
C18_DiveAndReturnGuards ==
  [][lastOp'.op = "update" /\ currentWave > 1
     => /\ \A i \in AliveIds(aliens) :
             /\ aliens[i].diveState = "DIVING"
             /\ Abs(aliens[i].diveStartPos.z - RetreatZ) < 1
             => aliens'[i].diveState = "RETURNING"
        /\ \A i \in AliveIds(aliens) :
             /\ aliens[i].diveState = "RETURNING"
             /\ DistSq(aliens[i].diveStartPos, aliens'[i].formationPos) < 1
             => aliens'[i].diveState = "NONE"]_vars

\* a squid whose dive started at the retreat depth came back to formation in
\* the update after the one that turned it round
C18_ZeroReturn ==
  /\ lastOp.op = "update"
  /\ \E i \in lastOp.landed :
       /\ aliens[i].diveStartPos.z = RetreatZ
       /\ aliens[i].diveStartPos = aliens[i].formationPos

\* ---------------------------------------------------------- strafing dives
\* Frames of a wave in play with its dives: wave 25 with all lives, twenty
\* minutes into the game.  The frames are 0.1 s, with the first squid picked
\* and the shortest wait, or with the last squid picked, the longest wait and
\* the player 40 units to the right; the first frame may also carry a player
\* shot that kills the first alien.
StrafeStartSet == {<<25, Lives, HitsPerLife, 24000>>}
StrafeCallSet  == {<<2, PlayerHome, 0, 0>>,
                   <<2, [PlayerHome EXCEPT !.x = 40 * Tenths], 999, 999>>}

NextStrafe ==
  /\ lastOp.elapsed < StrafeMaxTicks
  /\ \E c \in StrafeCallSet :
     \E flight \in {<<>>} \cup {<<"kill">> : e \in {lastOp.elapsed} \cap {0, 1}} :
       GameUpdate(c[1], c[2], c[3], c[4], flight)

SpecStrafe ==
  /\ \E s \in StrafeStartSet : InitPlaying(s[1], s[2], s[3], s[4])
  /\ [][NextStrafe]_vars

\* base + (late - base) * min((wave - 2) / 73, 1) seconds, as a number of
\* ticks times 730
StrafeIntervalScaled(wave) ==
  IF wave - 2 >= 73 THEN 4 * 73 * 20 ELSE (10 * 73 - 6 * (wave - 2)) * 20

\* C19: every strafe shot of a frame comes from an alien that is alive and
\* DIVING, with its dive progress between 0.2 and 0.8, at least the
\* wave-scaled interval after its previous strafe shot or the start of its
\* dive, and the shot restarts that interval; so an alien that was not
\* diving before the frame, or whose clock started less than an interval
\* ago, fires none.
C19_StrafeShotsGated ==
  [][lastOp'.op = "frame" =>
       \A k \in DOMAIN lastOp'.shots :
         LET i == lastOp'.shots[k].from
         IN /\ aliens[i].alive
            /\ aliens[i].diveState = "DIVING"
            /\ aliens'[i].alive =>
                 /\ aliens'[i].diveState = "DIVING"
                 /\ 5 * aliens'[i].diveProgress >= PUnit
                 /\ 5 * aliens'[i].diveProgress <= 4 * PUnit
                 /\ aliens'[i].lastDiveShotTime = game'.gameTime
            /\ (game'.gameTime - aliens[i].lastDiveShotTime) * 730
                 >= StrafeIntervalScaled(currentWave)]_vars

\* a frame in which a diver past the middle of its dive fires a strafe shot,
\* which is not the first shot of that dive
C19_Witness ==
  /\ lastOp.op = "frame"
  /\ \E k \in DOMAIN lastOp.shots :
       /\ aliens[lastOp.shots[k].from].alive
       /\ 2 * aliens[lastOp.shots[k].from].diveProgress >= PUnit

\* the aliens that stand ahead of alien i in its column: alive and in the
\* formation
AheadInColumn(i) ==
  {j \in AlienIds : /\ aliens[j].alive /\ aliens[j].diveState = "NONE"
                    /\ GridX(j) = GridX(i) /\ GridY(j) < GridY(i)}

\* C20: at the end of every PLAYING frame, every alive alien that is in the
\* formation has brightness max(0.3, 1.0 - 0.15 k), where k counts the alive
\* aliens in the formation ahead of it in its column.
C20_BrightnessByRank ==
  lastOp.op = "frame" =>
    \A i \in AlienIds :
      aliens[i].alive /\ aliens[i].diveState = "NONE" =>
        aliens[i].brightness = Max(30, 100 - 15 * Cardinality(AheadInColumn(i)))

\* the end of a frame in which a squid left on a dive and the alien behind it
\* in its column kept the brightness it had with the diver ahead of it
C20_StaleBehindDiver ==
  /\ lastOp.op = "frame"
  /\ \E d \in lastOp.promoted : \E i \in AlienIds :
       /\ aliens[i].alive /\ aliens[i].diveState = "NONE"
       /\ GridX(i) = GridX(d) /\ GridY(i) > GridY(d)
       /\ aliens[i].brightness
            = Max(30, 100 - 15 * (Cardinality(AheadInColumn(i)) + 1))
       /\ aliens[i].brightness
            # Max(30, 100 - 15 * Cardinality(AheadInColumn(i)))

\* the end of a frame in which a diver came back behind other aliens of its
\* column and kept the full brightness of a diver
C20_BrightReturned ==
  /\ lastOp.op = "frame"
  /\ \E i \in lastOp.landed :
       /\ aliens[i].alive /\ aliens[i].diveState = "NONE"
       /\ AheadInColumn(i) # {}
       /\ aliens[i].brightness = 100

\* every alive alien's brightness is one of the values max(0.3, 1.0 - 0.15 k)
\* and so never below 0.3, whatever k it was last computed for
C20_AtLeastFloor ==
  \A i \in AlienIds :
    aliens[i].alive =>
      /\ aliens[i].brightness >= 30
      /\ \E k \in 0 .. Rows : aliens[i].brightness = Max(30, 100 - 15 * k)

\* ------------------------------------------------------------ danger line
\* Frames of wave 2 in play, a minute into the game, around the danger line:
\* the first alien of the front row and the squid behind it in the back row
\* are placed on the line (z = -dangerDistance, not past it) or one unit past
\* it, the squid may be sent on a dive, and frames of 0.1 s follow, with
\* nothing in flight, a player shot that kills the first alive alien, or an
\* alien shot that hits the player.  The game starts with all lives, or on
\* its last life and last health point.
DangerStartSet == {<<2, Lives, HitsPerLife, 1200>>, <<2, 1, 1, 1200>>}
DangerMovers   == {0, 4 * Columns}
DangerPlaceSet == {Vec(StartX, StartHeight, -DangerDistance),
                   Vec(StartX, StartHeight, 1 - DangerDistance)}

NextDanger ==
  \/ \E i \in DangerMovers, pos \in DangerPlaceSet :
       /\ game.state = "PLAYING"
       /\ SetPosition(i, pos)
  \/ /\ game.state = "PLAYING"
     /\ AlienStartDive(4 * Columns, 0, game.gameTime)
  \/ /\ lastOp.elapsed < DangerMaxTicks
     /\ \E flight \in {<<>>, <<"kill">>, <<"hit">>} :
          GameUpdate(2, PlayerHome, 0, 0, flight)

SpecDanger ==
  /\ \E s \in DangerStartSet : InitPlaying(s[1], s[2], s[3], s[4])
  /\ [][NextDanger]_vars

\* the alive aliens past the danger line
PastLine(als) == {i \in AlienIds : als[i].alive /\ als[i].pos.z > -DangerDistance}

\* C16: a PLAYING frame that ends with some alive alien at z > -dangerDistance,
\* whatever its row and its dive state, starts the landing sequence in that
\* frame; one that ends with no alive alien past the line starts none, however
\* many dead aliens lie past it.
C16_DangerStartsLanding ==
  [][lastOp'.op = "frame" =>
       /\ PastLine(aliens') # {} =>
            game'.state = "INVASION_LANDING" /\ landingActive'
       /\ PastLine(aliens') = {} =>
            game'.state # "INVASION_LANDING" /\ landingActive' = landingActive]_vars

\* the end of a frame that started the landing because of the back-row squid
\* alone, caught past the line on its dive (startLanding has reset the dive;
\* the dive start it kept is the place where it was caught)
C16_Witness ==
  /\ lastOp.op = "frame"
  /\ game.state = "INVASION_LANDING" /\ landingActive
  /\ PastLine(aliens) = {4 * Columns}
  /\ aliens[4 * Columns].diveStartPos = aliens[4 * Columns].pos

\* the end of a frame whose player shot killed the only alien past the line:
\* the game plays on
C16_DeadPastLine ==
  /\ lastOp.op = "frame"
  /\ game.state = "PLAYING" /\ ~landingActive
  /\ lastOp.collision.result.alienHits # <<>>
  /\ \E k \in DOMAIN lastOp.collision.result.alienHits :
       lastOp.collision.result.alienHits[k].position.z > -DangerDistance

\* the end of a frame with an alive alien exactly on the line: the game plays
\* on
C16_OnLine ==
  /\ lastOp.op = "frame"
  /\ game.state = "PLAYING"
  /\ \E i \in AlienIds : aliens[i].alive /\ aliens[i].pos.z = -DangerDistance

\* -------------------------------------------------------------- last life
\* Frames of wave 2 in play, a minute into the game, on the last life with
\* two health points left or on the last but one with one: frames of 0.1 s
\* in which nothing, a player shot that kills the first alive alien, an alien
\* shot that hits the player, or both are in flight; once the game is over,
\* idle frames and the restart input, with every alien spawned at the top.
GameOverStartSet == {<<2, 1, 2, 1200>>, <<2, 2, 1, 1200>>}
GameOverFlightSet == {<<>>, <<"kill">>, <<"hit">>, <<"kill", "hit">>}

NextGameOver ==
  \/ /\ lastOp.elapsed < GameOverMaxTicks
     /\ \E flight \in GameOverFlightSet : GameUpdate(2, PlayerHome, 0, 0, flight)
  \/ GameOverFrame(2)
  \/ Restart(PlanTop)

SpecGameOver ==
  /\ \E s \in GameOverStartSet : InitPlaying(s[1], s[2], s[3], s[4])
  /\ [][NextGameOver]_vars

\* C15: a PLAYING frame whose player hit takes the last life ends in
\* GAME_OVER, whatever else happens in the frame, and a game that is over
\* leaves GAME_OVER only by the restart input.
C15_GameOverUntilRestart ==
  [][/\ ( /\ lastOp'.op = "frame"
          /\ lastOp'.collision.result.playerHit
          /\ game'.lives <= 0 )
          => game'.state = "GAME_OVER"
     /\ game.state = "GAME_OVER" /\ game'.state # "GAME_OVER"
          => lastOp'.op = "restart"]_vars

\* the end of a frame in which the player lost the last life and the last
\* alien was killed: the wave-complete delay runs with no lives left
C15_WaveCompleteAtNoLives ==
  /\ lastOp.op = "frame"
  /\ lastOp.collision.result.playerHit
  /\ lastOp.collision.result.alienHits # <<>>
  /\ game.lives = 0
  /\ AliveIds(aliens) = {}
  /\ game.state = "WAVE_COMPLETE_DELAY"

\* a frame that takes the last life ends in GAME_OVER when it leaves an alien
\* alive and none past the danger line, and a game that is over stays over
\* until the restart input
C15_GameOverUnlessWaveEnds ==
  [][/\ ( /\ lastOp'.op = "frame"
          /\ lastOp'.collision.result.playerHit
          /\ game'.lives <= 0
          /\ AliveIds(aliens') # {}
          /\ PastLine(aliens') = {} )
          => game'.state = "GAME_OVER"
     /\ game.state = "GAME_OVER" /\ game'.state # "GAME_OVER"
          => lastOp'.op = "restart"]_vars

\* a game that ended while aliens were alive, restarted
C15_Restarted ==
  /\ lastOp.op = "restart"
  /\ game.state = "WAVE_INTRO" /\ game.lives = Lives

\* the end of a frame in which the player lost the last life while an alien
\* stood past the danger line: the landing sequence runs with no lives left
C15_LandingAtNoLives ==
  /\ lastOp.op = "frame"
  /\ lastOp.collision.result.playerHit
  /\ game.lives = 0
  /\ PastLine(aliens) # {}
  /\ game.state = "INVASION_LANDING"

\* ----------------------------------------------------------- closest cell
\* the cells of shield s that a checkHit at point with this radius may hit:
\* alive, with health left, nearer than hexRadius * 1.5 + radius
Hittable(s, point, radius) ==
  {c \in InReach(s, point, radius) : shields[s][c].alive /\ shields[s][c].health > 0}

\* C29: the cell a checkHit reports as hit was, when the call was made, an
\* alive cell within hexRadius * 1.5 + radius of the impact point, no other
\* such cell was nearer to the point, and no equally near one comes earlier in
\* the cell list.
C29_ClosestAliveCell ==
  [][lastOp'.op = "checkHit" /\ lastOp'.hit.hit =>
       LET s == lastOp'.hit.shield
           c == lastOp'.hit.cell
           p == lastOp'.hit.point
           candidates == Hittable(s, p, lastOp'.hit.radius)
       IN /\ c \in candidates
          /\ \A d \in candidates :
               /\ DistSq(p, CellPos(s, c)) <= DistSq(p, CellPos(s, d))
               /\ DistSq(p, CellPos(s, c)) = DistSq(p, CellPos(s, d)) => c <= d]_vars

\* a hit of damage 1 at a point equally near to two alive cells: the earlier
\* cell of the pair is the one reported, and the later one is still alive and
\* as near
C29_Witness ==
  /\ lastOp.op = "checkHit"
  /\ lastOp.hit.hit
  /\ lastOp.hit.damage = AlienShotDamage
  /\ \E d \in Hittable(lastOp.hit.shield, lastOp.hit.point, lastOp.hit.radius) :
       /\ d > lastOp.hit.cell
       /\ DistSq(lastOp.hit.point, CellPos(lastOp.hit.shield, d))
            = DistSq(lastOp.hit.point, CellPos(lastOp.hit.shield, lastOp.hit.cell))

\* a hit on a cell that is not the nearest cell of the barrier in reach: a
\* nearer one is dead
C29_NearerDead ==
  /\ lastOp.op = "checkHit"
  /\ lastOp.hit.hit
  /\ \E d \in InReach(lastOp.hit.shield, lastOp.hit.point, lastOp.hit.radius) :
       /\ ~shields[lastOp.hit.shield][d].alive
       /\ DistSq(lastOp.hit.point, CellPos(lastOp.hit.shield, d))
            < DistSq(lastOp.hit.point, CellPos(lastOp.hit.shield, lastOp.hit.cell))

\* ------------------------------------------------------ depth of the sweep
\* C25: between two resets the formation depth changes only in a sweep step
\* that flips the sweep direction, and then by exactly dropDistance toward the
\* player; a sweep step that does not flip shifts the formation sideways and
\* leaves depth and direction as they were, and nothing else changes either.
C25_DepthOnlyDrops ==
  [][lastOp'.op # "reset" =>
       /\ formationZ' \in {formationZ, formationZ + DropDistance}
       /\ formationZ' # formationZ <=> direction' = -direction
       /\ formationZ' # formationZ => lastOp'.op = "update" /\ moveTimer' = 0
       /\ direction' = direction /\ formationX' # formationX =>
            /\ lastOp'.op = "update" /\ moveTimer' = 0
            /\ formationX' = formationX + BaseSpeed * direction
       /\ direction' \in {-1, 1}]_vars

\* a sweep step that flipped the direction back to the right: the formation
\* has dropped at both edges
C25_Witness ==
  /\ lastOp.op = "update"
  /\ lastOp.step = "flip"
  /\ direction = 1
  /\ formationZ >= 2 * DropDistance - StartDistance

\* a sweep step that shifted the formation after its first drop and did not
\* flip
C25_ShiftAfterDrop ==
  /\ lastOp.op = "update"
  /\ lastOp.step = "shift"
  /\ formationZ = DropDistance - StartDistance

\* ------------------------------------------------------------------ escort
\* Wave 25: the formation is updated in frames of 0.1 s, with the first or
\* the last available squid picked and the shortest wait drawn; before the
\* first frame and again after 6 s the player shoots crabs and bugs, one
\* after the other, front to back.
EscortCallSet == {<<2, 0, 0, 0, 0>>, <<2, 0, 0, 999, 0>>}
EscortShotTicks == {0, 120}
EscortWaveSet == {25}

NonSquidAlive(als) == {i \in AlienIds : als[i].alive /\ AlienType(i) # "squid"}

NextEscort ==
  \/ /\ currentWave \in EscortWaveSet
     /\ lastOp.elapsed < EscortMaxTicks
     /\ \E c \in EscortCallSet : Update(c[1], c[2], c[3], c[4], c[5])
  \/ \E i \in NonSquidAlive(aliens) :
       /\ currentWave \in EscortWaveSet
       /\ lastOp.elapsed \in EscortShotTicks
       /\ \A j \in NonSquidAlive(aliens) : i <= j
       /\ Kill(i)
  \/ /\ lastOp.op = "new"
     /\ \E wave \in EscortWaveSet : Reset(wave)

SpecEscort == Init /\ [][NextEscort]_vars

\* C30: whenever an alien goes from dive state NONE to DIVING, some alien that
\* is no squid is alive; with only squids alive no dive starts, whatever the
\* dive timer does.
C30_DiveNeedsEscort ==
  [][\A i \in AlienIds :
       aliens[i].diveState = "NONE" /\ aliens'[i].diveState = "DIVING" =>
         /\ NonSquidAlive(aliens) # {}
         /\ NonSquidAlive(aliens') # {}]_vars

\* an update, at least 7 s into the wave, in which the dive timer fired (not
\* for the first time) with every squid alive and in the formation and no
\* crab or bug left: no dive started
C30_Witness ==
  /\ lastOp.op = "update"
  /\ lastOp.fired
  /\ lastOp.promoted = {}
  /\ NonSquidAlive(aliens) = {}
  /\ \A i \in AliveIds(aliens) : aliens[i].diveState = "NONE"
  /\ Cardinality(AliveIds(aliens)) = 2 * Columns
  /\ lastOp.elapsed >= (FirstDiveSeconds + 2) * TicksPerSecond

\* an update in which the dive timer fired and a squid left on a dive with one
\* single bug alive
C30_LastEscort ==
  /\ lastOp.op = "update"
  /\ lastOp.fired
  /\ lastOp.promoted # {}
  /\ Cardinality(NonSquidAlive(aliens)) = 1


\* ---------------------------------------------------------------------------
\* move interval: the formation under fire, from the full grid down to the
\* last alien, until its first drops
\* ---------------------------------------------------------------------------
IntervalDtSet == {1, 2}
FullColumns   == 11     \* GameConfig.aliens.columns
FullGrid      == Rows * FullColumns

NextInterval ==
  \/ /\ Drops <= IntervalMaxDrops
     /\ \E dt \in IntervalDtSet : Update(dt, 0, 0, 0, 0)
  \/ \E i \in AliveIds(aliens) :
       /\ Drops <= IntervalMaxDrops
       /\ \A j \in AliveIds(aliens) : i <= j
       /\ Cardinality(AliveIds(aliens)) > 1
       /\ Kill(i)

SpecInterval == Init /\ [][NextInterval]_vars

\* the interval of the statement, in frames times 10 * total
IntervalFloor(total) == BaseMoveInterval * SpeedMultiplierMinTenths * total

C21_AboveFloor ==
  /\ lastOp.op = "update" /\ lastOp.step # "none"
  /\ 10 * Cardinality(AliveIds(aliens)) > SpeedMultiplierMinTenths * Rows * Columns
  /\ Cardinality(AliveIds(aliens)) < Rows * Columns


\* ---------------------------------------------------------------------------
\* wave scaling: the game between two waves, for every wave up to WaveMax
\* ---------------------------------------------------------------------------
WaveSet == 1 .. WaveMax

\* the diver cap a wave plays under: update runs the dive attacks only for
\* currentWave > 1, tryStartDive stops at maxDivers
DiverCap(wave) == IF wave > 1 THEN MaxDivers(wave) ELSE 0

NextWaves ==
  \E plan \in {PlanTop, PlanSides} :
    /\ game.wave < WaveMax
    /\ NextWave(plan)

SpecWaves == (\E wave \in WaveSet : InitWaveComplete(wave)) /\ [][NextWaves]_vars


\* C22: for the waves 1 to 100 the shoot chance that reset(wave) sets does
\* not decrease from one wave to the next and lies in [0.005, 0.05]; it is
\* 0.005 at wave 1 and 0.05 at wave 100 (shootChance is in 1/99000)
C22_ShootChanceByWave ==
  /\ shootChance = ShootChance(currentWave)
  /\ \A wave \in 1 .. 100 :
       /\ 5 * WaveSpan <= ShootChance(wave) /\ ShootChance(wave) <= 50 * WaveSpan
       /\ wave < 100 => ShootChance(wave) <= ShootChance(wave + 1)
  /\ ShootChance(1) = 5 * WaveSpan
  /\ ShootChance(100) = 50 * WaveSpan
  /\ currentWave \in 1 .. 100 =>
       /\ 5 * WaveSpan <= shootChance /\ shootChance <= 50 * WaveSpan
       /\ currentWave = 1 => shootChance = 5 * WaveSpan
       /\ currentWave = 100 => shootChance = 50 * WaveSpan

\* nextWave has just reset the formation for wave 100: the chance is 0.05
C22_Witness ==
  /\ lastOp.op = "nextWave"
  /\ currentWave = 100
  /\ shootChance = 50 * WaveSpan

\* a wave in between, with a chance strictly inside the interval
C22_Between ==
  /\ lastOp.op = "nextWave"
  /\ currentWave = 50
  /\ 5 * WaveSpan < shootChance /\ shootChance < 50 * WaveSpan


\* C23: for every wave from 1 on the barriers' per-cell starting health is
\* one of 1, 2, 3 and does not increase from a wave to the next; it is 3 at
\* wave 1, 2 at wave 50 and 1 from wave 100 on; the barriers that
\* createShields builds for a wave have every cell alive at that health
C23_ShieldHealthByWave ==
  /\ \A wave \in WaveSet :
       /\ ShieldHealth(wave) \in {1, 2, 3}
       /\ wave < WaveMax => ShieldHealth(wave + 1) <= ShieldHealth(wave)
       /\ wave >= 100 => ShieldHealth(wave) = 1
  /\ ShieldHealth(1) = 3
  /\ ShieldHealth(50) = 2
  /\ \A s \in ShieldIds, c \in CellIds :
       /\ shields[s][c].alive
       /\ shields[s][c].health \in {1, 2, 3}
       /\ shields[s][c].health = shields[1][1].health
       /\ shields[s][c].maxHealth = shields[s][c].health
       /\ game.wave = 1 => shields[s][c].health = 3
       /\ game.wave = 50 => shields[s][c].health = 2
       /\ game.wave >= 100 => shields[s][c].health = 1

\* nextWave has just built the barriers of wave 50, at health 2
C23_Witness ==
  /\ lastOp.op = "nextWave"
  /\ game.wave = 50
  /\ \A s \in ShieldIds, c \in CellIds : shields[s][c].health = 2

\* the barriers of a wave past 100, still at health 1
C23_Beyond ==
  /\ lastOp.op = "nextWave"
  /\ game.wave > 100
  /\ \A s \in ShieldIds, c \in CellIds : shields[s][c].health = 1


\* C24: the concurrent-diver cap is 0 at wave 1 (no diving), 1 at wave 2,
\* 2 at wave 25, 3 at wave 50, 4 at wave 75 and 5 at wave 100
C24_DiverCapTable ==
  /\ currentWave = 1 => DiverCap(currentWave) = 0
  /\ currentWave = 2 => DiverCap(currentWave) = 1
  /\ currentWave = 25 => DiverCap(currentWave) = 2
  /\ currentWave = 50 => DiverCap(currentWave) = 3
  /\ currentWave = 75 => DiverCap(currentWave) = 4
  /\ currentWave = 100 => DiverCap(currentWave) = 5

\* the formation reset for wave 25 plays under a cap of one diver
C24_OneAtWave25 ==
  /\ lastOp.op = "nextWave"
  /\ currentWave = 25
  /\ DiverCap(currentWave) = 1

\* the ends of the table, where it agrees with the code
C24_TableEnds ==
  /\ currentWave = 1 => DiverCap(currentWave) = 0
  /\ currentWave = 2 => DiverCap(currentWave) = 1
  /\ currentWave = 100 => DiverCap(currentWave) = 5

\* the cap at the waves in between: a diver more only from wave 26, 51, 76 on
C24_CapByWave ==
  /\ currentWave \in 2 .. 25 => DiverCap(currentWave) = 1
  /\ currentWave \in 26 .. 50 => DiverCap(currentWave) = 2
  /\ currentWave \in 51 .. 75 => DiverCap(currentWave) = 3
  /\ currentWave \in 76 .. 99 => DiverCap(currentWave) = 4
  /\ currentWave >= 100 => DiverCap(currentWave) = 5


\* at wave 25 the dive timer fires with one diver away and squids left in
\* the formation, and starts no second dive
C24_SecondRefused ==
  /\ lastOp.op = "update" /\ lastOp.fired
  /\ currentWave = 25
  /\ lastOp.promoted = {}
  /\ Cardinality({i \in AlienIds : aliens[i].alive /\ IsDiving(aliens[i])}) = 1
  /\ \E i \in AlienIds :
       aliens[i].alive /\ ~IsDiving(aliens[i]) /\ AlienType(i) = "squid"
  /\ NonSquidAlive(aliens) # {}


\* ---------------------------------------------------------------------------
\* invasion landing: wave 100 played until the formation is over the danger
\* line, and the landing that follows
\* ---------------------------------------------------------------------------
LandingStartSet == {<<100, Lives, HitsPerLife, 1200>>}
LandingShotTicks == {0, 2}
LandingDtSet == {1, 2}

NextLanding ==
  \/ /\ lastOp.elapsed < LandingMaxTicks
     /\ \E flight \in {<<>>} \cup {<<"kill">> : e \in {lastOp.elapsed} \cap LandingShotTicks} :
          GameUpdate(2, PlayerHome, 0, 0, flight)
  \/ \E dt \in LandingDtSet : LandingFrame(dt)

SpecLanding ==
  /\ \E start \in LandingStartSet : InitPlaying(start[1], start[2], start[3], start[4])
  /\ [][NextLanding]_vars

\* the landing clock after the step, in 1/400 s
C26_Clock == landingElapsedTime' * (LandingUnit \div TicksPerSecond)

\* C26: updateLanding reports complete only when every alive alien has
\* reached its landing slot (its delay and its 2 s of flight are over and
\* it stands on the slot) and the settle time of 3.5 s on the landing clock
\* has passed, which is after the last of them landed; it reports not
\* complete while an alive alien waits for its delay or is in flight
C26_CompleteOnlyLanded ==
  [][lastOp'.op = "landing" =>
       /\ landingActive
       /\ lastOp'.returned =>
            /\ C26_Clock > LandingSettle
            /\ \A i \in AliveIds(aliens) :
                 /\ landingTargets[i].has
                 /\ C26_Clock - landingTargets[i].delay >= LandingDuration
                 /\ landingTargets[i].delay + LandingDuration < LandingSettle
                 /\ aliens'[i].pos = landingTargets[i].targetPos
            /\ ~landingActive' /\ game'.state = "GAME_OVER"
       /\ (\E i \in AliveIds(aliens) :
             C26_Clock - landingTargets[i].delay < LandingDuration)
            => (~lastOp'.returned /\ landingActive' /\ game'.state = "INVASION_LANDING")
       /\ AliveIds(aliens') = AliveIds(aliens)
    ]_vars

\* the landing is reported complete, with aliens shot before it began
C26_Witness ==
  /\ lastOp.op = "landing" /\ lastOp.returned
  /\ game.state = "GAME_OVER"
  /\ AliveIds(aliens) # {} /\ AliveIds(aliens) # AlienIds
  /\ \A i \in AliveIds(aliens) : aliens[i].pos = landingTargets[i].targetPos

\* every alive alien has landed and the landing is not yet complete: the
\* settle time is still running
C26_Settling ==
  /\ lastOp.op = "landing" /\ ~lastOp.returned
  /\ \A i \in AliveIds(aliens) : Landed(landingElapsedTime, landingTargets[i])

\* a landing frame with one alien in flight, off its slot, and one still
\* waiting for its delay
C26_Staggered ==
  /\ lastOp.op = "landing" /\ ~lastOp.returned
  /\ \E j, k \in AliveIds(aliens) :
       /\ ~Landed(landingElapsedTime, landingTargets[j])
       /\ aliens[j].pos # landingTargets[j].targetPos
       /\ aliens[j].pos # landingTargets[j].startPos
       /\ TimeSinceStart(landingElapsedTime, landingTargets[j]) >= 0
       /\ TimeSinceStart(landingElapsedTime, landingTargets[k]) < 0


\* ---------------------------------------------------------------------------
\* the game loop: from the menu through the intro, wave 1 shot empty, the
\* next wave with its dives, lives lost, game over and restart
\* ---------------------------------------------------------------------------
GameStartSet   == {<<2, 2, 1, 600>>, <<2, 1, 1, 600>>}
GameIntroShots == {8, 60}
GameHitTicks   == {2, 130}

\* the shots of a frame in play: at wave 1 the player hits an alien in every
\* frame; later an alien shot hits a player at the last health point
GameFlights ==
  IF game.wave = 1 THEN {<<"kill">>}
  ELSE {<<>>} \cup {<<"hit">> : e \in {lastOp.elapsed} \cap
                                    (IF game.currentHealth = 1 THEN GameHitTicks ELSE {})}

NextGame ==
  \/ \E plan \in IntroPlanSet : StartGame(plan)
  \/ \E flight \in {<<>>} \cup {<<"kill">> : e \in {introElapsedTime} \cap GameIntroShots} :
       IntroFrame(2, flight)
  \/ /\ lastOp.elapsed < GameMaxTicks
     /\ \E flight \in GameFlights : GameUpdate(2, PlayerHome, 0, 0, flight)
  \/ \E particles \in {FALSE} \cup {TRUE : e \in {lastOp.op} \ {"delay"}} :
       DelayFrame(2, particles)
  \/ \E plan \in {PlanTop} : TuneFrame(2, plan)
  \/ GameOverFrame(2)
  \/ \E plan \in {PlanSides} : Restart(plan)

SpecGame ==
  /\ \/ Init
     \/ \E start \in GameStartSet : InitPlaying(start[1], start[2], start[3], start[4])
  /\ [][NextGame]_vars

\* C27: in every reachable state of the game no alien is in a fly-in state
\* (WAITING or FLYING) and in a dive state (DIVING or RETURNING) at once
C27_FlyInXorDive ==
  \A i \in AlienIds :
    ~(/\ aliens[i].flyInState \in {"WAITING", "FLYING"}
      /\ aliens[i].diveState \in {"DIVING", "RETURNING"})

\* wave 2 in play after its intro, an alien away on a dive
C27_Witness ==
  /\ game.state = "PLAYING" /\ game.wave = 2
  /\ game.lives = Lives
  /\ \E i \in AlienIds :
       aliens[i].alive /\ aliens[i].diveState = "DIVING" /\ aliens[i].flyInState = "ARRIVED"

\* an intro frame with aliens flying in while others wait
C27_FlyingIn ==
  /\ game.state = "WAVE_INTRO"
  /\ lastOp.op = "intro"
  /\ \E i, j \in AlienIds :
       /\ aliens[i].flyInState = "FLYING" /\ aliens[i].diveState = "NONE"
       /\ aliens[j].flyInState = "WAITING"

\* the game goes on after a lost life with a diver still away
C27_DiverAfterLifeLost ==
  /\ lastOp.op = "tune" /\ game.state = "PLAYING"
  /\ \E i \in AlienIds : aliens[i].alive /\ IsDiving(aliens[i])


\* C28: between two wave resets the formation's alien list keeps its
\* rows * columns aliens, each with its own (column, row), no two alike,
\* and an alien's alive flag only goes from true to false: the alive count
\* never grows within a wave
C28_FixedGridAliveFalls ==
  [][/\ DOMAIN aliens' = DOMAIN aliens
     /\ Cardinality(DOMAIN aliens') = Rows * Columns
     /\ \A i \in DOMAIN aliens' :
          /\ GridX(i) \in 0 .. Columns - 1
          /\ GridY(i) \in 0 .. Rows - 1
          /\ \A j \in DOMAIN aliens' :
               (GridX(i) = GridX(j) /\ GridY(i) = GridY(j)) => i = j
     /\ lastOp'.op \notin {"nextWave", "restart"} =>
          /\ \A i \in DOMAIN aliens : aliens'[i].alive => aliens[i].alive
          /\ Cardinality(AliveIds(aliens')) <= Cardinality(AliveIds(aliens))
    ]_vars

\* a frame of play has just shot an alien of a formation that had lost
\* others before
C28_Witness ==
  /\ lastOp.op = "frame"
  /\ lastOp.collision.result.alienHits # <<>>
  /\ Cardinality(AliveIds(aliens)) < Rows * Columns - 1
  /\ AliveIds(aliens) # {}

\* an alien shot during the intro is still dead when the wave plays
C28_ShotInIntro ==
  /\ game.state = "PLAYING" /\ game.wave = 2
  /\ lastOp.op = "intro"
  /\ AliveIds(aliens) # AlienIds

\* the next wave's reset has put a full formation in place of an empty one
C28_NewFormation ==
  /\ lastOp.op = "nextWave"
  /\ AliveIds(aliens) = AlienIds


\* ---------------------------------------------------------------------------
\* game states: the game loop together with wave 100 played down to the
\* danger line and its landing
\* ---------------------------------------------------------------------------
NextStates ==
  \/ NextGame
  \/ /\ game.wave \in {start[1] : start \in LandingStartSet}
     /\ NextLanding

SpecStates ==
  /\ \/ Init
     \/ \E start \in GameStartSet \cup LandingStartSet :
          InitPlaying(start[1], start[2], start[3], start[4])
  /\ [][NextStates]_vars

\* the state changes of the statement
C31_Transitions ==
  {<<"MENU", "WAVE_INTRO">>, <<"WAVE_INTRO", "PLAYING">>,
   <<"PLAYING", "WAVE_COMPLETE_DELAY">>, <<"WAVE_COMPLETE_DELAY", "WAVE_COMPLETE">>,
   <<"WAVE_COMPLETE", "WAVE_INTRO">>, <<"PLAYING", "LIFE_LOST_DELAY">>,
   <<"LIFE_LOST_DELAY", "LIFE_LOST">>, <<"LIFE_LOST", "PLAYING">>,
   <<"PLAYING", "INVASION_LANDING">>, <<"INVASION_LANDING", "GAME_OVER">>,
   <<"PLAYING", "GAME_OVER">>, <<"GAME_OVER", "WAVE_INTRO">>}

C31_MenuToIntro == lastOp.op = "startGame" /\ game.state = "WAVE_INTRO"
C31_IntroToPlaying == lastOp.op = "intro" /\ game.state = "PLAYING"
C31_PlayingToWaveDelay == lastOp.op = "frame" /\ game.state = "WAVE_COMPLETE_DELAY"
C31_WaveDelayToComplete == lastOp.op = "delay" /\ game.state = "WAVE_COMPLETE"
C31_CompleteToIntro == lastOp.op = "nextWave" /\ game.state = "WAVE_INTRO"
C31_PlayingToLifeDelay == lastOp.op = "frame" /\ game.state = "LIFE_LOST_DELAY"
C31_LifeDelayToLost == lastOp.op = "delay" /\ game.state = "LIFE_LOST"
C31_LostToPlaying == lastOp.op = "tune" /\ game.state = "PLAYING"
C31_PlayingToLanding == lastOp.op = "frame" /\ game.state = "INVASION_LANDING"
C31_PlayingToGameOver == lastOp.op = "frame" /\ game.state = "GAME_OVER"
C31_GameOverToIntro == lastOp.op = "restart" /\ game.state = "WAVE_INTRO"


\* ---------------------------------------------------------------------------
\* dives come back: wave 25 updated for as long as a dive may start, and
\* then for as long as an alien is away
\* ---------------------------------------------------------------------------
ReturnDtSet   == {1, 2}
ReturnWaveSet == {25}
ReturnPickSet == {0, 999}
\* the update times at which the short frame is tried as well
ReturnShortTicks == {100, 180, 260}

Away(als) == {i \in AlienIds : als[i].alive /\ IsDiving(als[i])}

ReturnUpdate ==
  /\ currentWave \in ReturnWaveSet
  /\ \/ lastOp.elapsed < ReturnStartTicks
     \/ Away(aliens) # {} /\ lastOp.elapsed < ReturnMaxTicks
  /\ \E dt \in ReturnDtSet, rPick \in ReturnPickSet :
       /\ dt = 1 => lastOp.elapsed \in ReturnShortTicks
       /\ rPick # 0 => Away(aliens) = {}
       /\ Update(dt, 0, 0, rPick, 0)

NextReturn ==
  \/ ReturnUpdate
  \/ /\ lastOp.op = "new"
     /\ \E wave \in ReturnWaveSet : Reset(wave)

\* what each of these updates does to the dive timer, whatever it does to
\* the aliens: dt more on it, or 0 when it reaches nextDiveTime
ReturnClock ==
  /\ currentWave \in ReturnWaveSet
  /\ \/ lastOp.elapsed < ReturnStartTicks
     \/ Away(aliens) # {} /\ lastOp.elapsed < ReturnMaxTicks
  /\ \E dt \in ReturnDtSet :
       /\ dt = 1 => lastOp.elapsed \in ReturnShortTicks
       /\ diveTimer' = IF diveTimer + dt >= nextDiveTime THEN 0 ELSE diveTimer + dt

\* updates with dt > 0 keep being applied: the dive timer does not stand
\* still for ever
SpecReturn == Init /\ [][NextReturn]_vars /\ WF_diveTimer(ReturnClock)

\* C32: an alien that enters DIVING returns to the dive state NONE after
\* finitely many updates of the formation, while updates with dt > 0 keep
\* being applied in the same wave
\* (one alien dives at a time at this wave, so the alien that is DIVING is
\* back in NONE as soon as no alien is away)
\* every update on the way is one that moves the dive timer
C32_DiveReturns ==
  /\ [][lastOp'.op = "update" => ReturnClock]_vars
  /\ (\E i \in AlienIds : aliens[i].alive /\ aliens[i].diveState = "DIVING")
       ~> (\A i \in AlienIds : aliens[i].alive /\ aliens[i].diveState = "NONE")

\* an update has just put a returning alien back into the formation
C32_Witness ==
  /\ lastOp.op = "update"
  /\ lastOp.landed # {}
  /\ \A i \in lastOp.landed :
       /\ aliens[i].alive /\ aliens[i].diveState = "NONE"
       /\ aliens[i].pos = aliens[i].formationPos

\* the turn of a dive: an update takes an alien from DIVING to RETURNING
C32_Turned ==
  /\ lastOp.op = "update"
  /\ \E i \in AlienIds : aliens[i].diveState = "RETURNING" /\ aliens[i].diveProgress = 0


\* ---------------------------------------------------------------------------
\* one sweep step per update: wave 1 updated with short and long frames
\* while its aliens are shot one by one, the last one included
\* ---------------------------------------------------------------------------
StepDtSet == {1, 2, 100}

NextStep ==
  \/ /\ Drops <= StepMaxDrops
     /\ \E dt \in StepDtSet : Update(dt, 0, 0, 0, 0)
  \/ \E i \in AliveIds(aliens) :
       /\ \A j \in AliveIds(aliens) : i <= j
       /\ moveTimer = 0
       /\ Kill(i)

SpecStep == Init /\ [][NextStep]_vars

\* C33: a call of update takes at most one sweep step however large dt is:
\* when the accumulated move timer reaches the move interval the timer is
\* reset to 0 and exactly one step is taken (a shift by baseSpeed, or a drop
\* with the direction reversed); otherwise the timer accumulates and the
\* formation stays; with no alien alive the call changes no formation state
C33_OneStepPerUpdate ==
  [][lastOp'.op = "update" =>
       IF AliveIds(aliens) = {}
       THEN UNCHANGED formVars
       ELSE IF MoveDue(moveTimer + lastOp'.dt * WaveMultiplierFifths(currentWave),
                       Cardinality(AliveIds(aliens)))
            THEN /\ moveTimer' = 0
                 /\ \/ /\ formationX' = formationX + BaseSpeed * direction
                       /\ formationZ' = formationZ
                       /\ direction' = direction
                    \/ /\ formationX' = formationX
                       /\ formationZ' = formationZ + DropDistance
                       /\ direction' = -direction
            ELSE /\ moveTimer' = moveTimer + lastOp'.dt * WaveMultiplierFifths(currentWave)
                 /\ UNCHANGED <<formationX, formationZ, direction>>]_vars

\* a 5 s update has just taken its one step and left the timer at 0
C33_Witness ==
  /\ lastOp.op = "update"
  /\ lastOp.dt = 100
  /\ lastOp.step # "none"
  /\ moveTimer = 0
  /\ AliveIds(aliens) # {}

\* an update of a formation with no alien alive
C33_NoneAlive ==
  /\ lastOp.op = "update"
  /\ AliveIds(aliens) = {}

\* a long update whose one step is the drop at the edge
C33_LongDrop ==
  /\ lastOp.op = "update"
  /\ lastOp.dt = 100
  /\ lastOp.step = "flip"


\* C34: at most one alien is promoted into DIVING per update; a promotion
\* happens only when the dive timer fires; after every firing, with or
\* without a dive, the timer restarts from 0 with a threshold in
\* [minInterval(wave), maxInterval(wave)]; the first firing of a wave comes
\* no earlier than 5 s of update time, and at every firing at least
\* minInterval(wave) has accumulated since the firing before
C34_DiveTimer ==
  [][(lastOp'.op = "update" /\ currentWave > 1 /\ AliveIds(aliens) # {}) =>
       LET dt   == lastOp'.dt
           minI == DiveIntervalScaled(MinDiveIntervalTenths, MinDiveIntervalLateTenths,
                                      currentWave)
           maxI == DiveIntervalScaled(MaxDiveIntervalTenths, MaxDiveIntervalLateTenths,
                                      currentWave)
           promoted == {i \in AlienIds : aliens[i].diveState = "NONE"
                                         /\ aliens'[i].diveState # "NONE"}
       IN /\ Cardinality(promoted) <= 1
          /\ IF diveTimer + dt >= nextDiveTime
             THEN /\ diveTimer' = 0
                  /\ nextDiveTime' * 10 * WaveSpan >= minI * TicksPerSecond
                  /\ (nextDiveTime' - 1) * 10 * WaveSpan < maxI * TicksPerSecond
                  /\ (diveTimer + dt) * 10 * WaveSpan >= minI * TicksPerSecond
                  /\ lastOp'.elapsed >= FirstDiveSeconds * TicksPerSecond
             ELSE /\ promoted = {}
                  /\ diveTimer' = diveTimer + dt
                  /\ nextDiveTime' = nextDiveTime]_vars

\* the second firing of wave 26 sends a second squid while the first is away
C34_Witness ==
  /\ lastOp.op = "update"
  /\ lastOp.fired
  /\ Cardinality(lastOp.promoted) = 1
  /\ lastOp.elapsed > FirstDiveSeconds * TicksPerSecond
  /\ diveTimer = 0
  /\ Cardinality(C2_Away(aliens)) = 2

\* a firing that starts no dive (the cap is reached) and still restarts the timer
C34_FiredNoDive ==
  /\ lastOp.op = "update"
  /\ lastOp.fired
  /\ lastOp.promoted = {}
  /\ diveTimer = 0
  /\ C2_Away(aliens) # {}

\* the first firing of a wave, at exactly 5 s
C34_FirstFiring ==
  /\ lastOp.op = "update"
  /\ lastOp.fired
  /\ lastOp.elapsed = FirstDiveSeconds * TicksPerSecond


\* ---------------------------------------------------------------------------
\* the last stand: wave 2 at the last health point is shot empty, and the
\* shot that kills the last alien may land in the frame in which an alien
\* shot hits the player; the game loop then runs on into wave 3
\* ---------------------------------------------------------------------------
LastStandStartSet == {<<2, 1, 1, 600>>, <<2, 2, 1, 600>>}

LastStandFlights ==
  IF game.wave = 2
  THEN {<<"kill">>} \cup {<<"kill", "hit">> : n \in {Cardinality(AliveIds(aliens))} \cap {1}}
  ELSE {<<>>, <<"hit">>}

NextLastStand ==
  \/ /\ game.gameTime < 600 + LastStandMaxTicks
     /\ \E flight \in LastStandFlights : GameUpdate(2, PlayerHome, 0, 0, flight)
  \/ IntroFrame(2, <<>>)
  \/ DelayFrame(2, FALSE)
  \/ \E plan \in {PlanTop} : TuneFrame(2, plan)
  \/ GameOverFrame(2)

SpecLastStand ==
  /\ \E start \in LastStandStartSet :
       InitPlaying(start[1], start[2], start[3], start[4])
  /\ [][NextLastStand]_vars

\* C35: whenever the game state is PLAYING at a frame boundary, lives >= 1
\* and currentHealth >= 1; lives and currentHealth are never negative
C35_LivesAndHealth ==
  /\ game.state = "PLAYING" => game.lives >= 1 /\ game.currentHealth >= 1
  /\ game.lives >= 0
  /\ game.currentHealth >= 0

\* wave 3 is played with no life and no health left
C35_PlayingAtNoLives ==
  /\ game.state = "PLAYING"
  /\ game.wave = 3
  /\ game.lives = 0
  /\ game.currentHealth = 0

\* a hit in that wave takes lives and health below zero
C35_Negative ==
  /\ game.wave = 3
  /\ game.lives = -1
  /\ game.currentHealth = -1

\* the frame that lets the game go on: the last alien and the last health
\* point go in the same frame
C35_FatalFrameCompletesWave ==
  /\ lastOp.op = "frame"
  /\ lastOp.collision.result.playerHit
  /\ game.state = "WAVE_COMPLETE_DELAY"
  /\ game.currentHealth = 0

\* what holds: a frame never takes more than one health point and one life,
\* and in a wave entered with health left PLAYING has lives and health
C35_UnlessWaveEndsOnHit ==
  [][/\ game'.lives >= game.lives - 1
     /\ game'.currentHealth >= 0 \/ game.currentHealth <= 0
     /\ (game'.state = "PLAYING" /\ game'.wave = 2) =>
          game'.lives >= 1 /\ game'.currentHealth >= 1]_vars


\* ---------------------------------------------------------------------------
\* volleys: frames of play in which up to three alien shots are at the
\* player at once, through lost lives to the end of the game
\* ---------------------------------------------------------------------------
VolleyStartSet == {<<2, 2, HitsPerLife, 600>>, <<2, 2, 2, 600>>, <<2, 1, 1, 600>>}
VolleyFlights  == {<<>>, <<"hit">>, <<"hit", "hit", "hit">>, <<"hit", "kill", "hit">>}

NextVolley ==
  \/ /\ lastOp.elapsed < VolleyMaxTicks
     /\ \E flight \in VolleyFlights : GameUpdate(2, PlayerHome, 0, 0, flight)
  \/ DelayFrame(2, FALSE)
  \/ /\ game.state = "LIFE_LOST"
     /\ \E plan \in {PlanTop} : TuneFrame(2, plan)
  \/ GameOverFrame(2)

SpecVolley ==
  /\ \E start \in VolleyStartSet :
       InitPlaying(start[1], start[2], start[3], start[4])
  /\ [][NextVolley]_vars

\* the places in the list of the swarm's projectiles that are within the
\* player's hit radius in the checkAll call c
C36_InRange(c) ==
  {k \in 1 .. Len(c.projectiles) :
     /\ c.projectiles[k].type = "alien"
     /\ InPlayerRadius(c.projectiles[k], c.player)}

\* C36: in a single frame currentHealth decreases by at most 1, however many
\* projectiles of the swarm are within the player's hit radius in that frame,
\* and every one of those projectiles is among the destroyed ones, which
\* checkCollisions removes from the list
C36_OneHealthPerFrame ==
  [][/\ game'.currentHealth >= game.currentHealth - 1
     /\ lastOp'.op = "frame" =>
          \A k \in C36_InRange(lastOp'.collision) :
            \E n \in DOMAIN lastOp'.collision.result.destroyedProjectiles :
              lastOp'.collision.result.destroyedProjectiles[n] = k]_vars

\* a frame with three alien shots on the player has cost one health point
C36_Witness ==
  /\ lastOp.op = "frame"
  /\ Cardinality(C36_InRange(lastOp.collision)) = 3
  /\ Len(lastOp.collision.result.destroyedProjectiles) = 3
  /\ lastOp.elapsed = 2
  /\ game.lives = 2
  /\ game.currentHealth = HitsPerLife - 1

\* a volley on the last health point costs one life, not two
C36_VolleyTakesOneLife ==
  /\ lastOp.op = "frame"
  /\ Cardinality(C36_InRange(lastOp.collision)) >= 2
  /\ game.currentHealth = 0
  /\ game.lives = 1
  /\ game.state = "LIFE_LOST_DELAY"


\* ---------------------------------------------------------------------------
\* the projectile list through the game loop: frames of play with shots of
\* both owners that strike nothing yet, and intro frames that are offered
\* alien shots as well
\* ---------------------------------------------------------------------------
ProjectilesStartSet == {<<2, 2, 1, 600>>, <<2, 1, 1, 600>>}
ProjectilesFlights ==
  IF game.wave = 1 THEN {<<"kill", "stray">>, <<"away", "kill", "stray">>}
  ELSE IF game.wave = 100 THEN {<<"stray">>}
  ELSE {<<"stray", "away">>, <<"stray", "hit">>}
ProjectilesIntroFlights ==
  {<<>>, <<"away">>, <<"hit">>, <<"stray">>}
    \cup {<<"kill">> : e \in {introElapsedTime} \cap GameIntroShots}

NextProjectiles ==
  \/ \E plan \in {PlanTop} : StartGame(plan)
  \/ \E flight \in ProjectilesIntroFlights : IntroFrame(2, flight)
  \/ /\ lastOp.elapsed < (IF game.wave = 100 THEN LandingMaxTicks ELSE ProjectilesMaxTicks)
     /\ \E flight \in ProjectilesFlights : GameUpdate(2, PlayerHome, 0, 0, flight)
  \/ DelayFrame(2, FALSE)
  \/ \E plan \in {PlanTop} : TuneFrame(2, plan)
  \/ LandingFrame(2)
  \/ GameOverFrame(2)
  \/ \E plan \in {PlanSides} : Restart(plan)

SpecProjectiles ==
  /\ \/ Init
     \/ \E start \in ProjectilesStartSet \cup LandingStartSet :
          InitPlaying(start[1], start[2], start[3], start[4])
  /\ [][NextProjectiles]_vars

\* C38: while the game state is WAVE_INTRO no projectile of the swarm
\* exists, in the list or among the projectiles a frame checks, so lives and
\* currentHealth do not change during an intro; the projectile list is
\* empty on entry to WAVE_INTRO and in every state other than PLAYING and
\* WAVE_INTRO
C38_NoSwarmShotInIntro ==
  /\ [](game.state = "WAVE_INTRO" => OwnedBy("alien", game.projectiles) = 0)
  /\ [](game.state \notin {"PLAYING", "WAVE_INTRO"} => game.projectiles = <<>>)
  /\ [][/\ (game.state # "WAVE_INTRO" /\ game'.state = "WAVE_INTRO")
            => game'.projectiles = <<>>
        /\ lastOp'.op = "intro"
            => \A k \in DOMAIN lastOp'.collision.projectiles :
                 lastOp'.collision.projectiles[k].type # "alien"
        /\ game.state = "WAVE_INTRO"
            => /\ game'.lives = game.lives
               /\ game'.currentHealth = game.currentHealth]_vars

\* the intro of wave 2, entered from a wave whose frames had shots of both
\* owners in flight, with a player shot of the intro in the list
C38_Witness ==
  /\ game.state = "WAVE_INTRO"
  /\ game.wave = 2
  /\ lastOp.op = "intro"
  /\ game.projectiles = <<"player">>

\* the frame that completes a wave clears the shots still in flight
C38_ClearedAtWaveEnd ==
  /\ lastOp.op = "frame"
  /\ game.state = "WAVE_COMPLETE_DELAY"
  /\ Len(lastOp.collision.projectiles) > Len(lastOp.collision.result.destroyedProjectiles)
  /\ game.projectiles = <<>>

\* a frame of play that leaves shots of both owners in the list
C38_BothInPlay ==
  /\ game.state = "PLAYING"
  /\ OwnedBy("alien", game.projectiles) > 0
  /\ OwnedBy("player", game.projectiles) > 0

\* play begins with a player shot of the intro still in flight
C38_ShotIntoPlay ==
  /\ game.state = "PLAYING"
  /\ lastOp.op = "intro"
  /\ game.projectiles = <<"player">>

\* the landing begins and the shots in flight are gone
C38_ClearedAtLanding ==
  /\ lastOp.op = "frame"
  /\ game.state = "INVASION_LANDING"
  /\ lastOp.collision.projectiles # <<>>
  /\ game.projectiles = <<>>

\* a lost life clears the shots in flight
C38_ClearedAtLifeLost ==
  /\ lastOp.op = "frame"
  /\ game.state = "LIFE_LOST_DELAY"
  /\ Len(lastOp.collision.projectiles) > Len(lastOp.collision.result.destroyedProjectiles)
  /\ game.projectiles = <<>>


\* ---------------------------------------------------------------------------
\* the score: a game from the menu in which every wave is shot empty, with
\* one or two player shots on the same alien in a frame
\* ---------------------------------------------------------------------------
ScoreFlights == {<<"kill">>, <<"kill", "kill">>}

NextScore ==
  \/ \E plan \in {PlanTop} : StartGame(plan)
  \/ \E flight \in {<<>>} \cup {f \in ScoreFlights : introElapsedTime \in GameIntroShots} :
       IntroFrame(2, flight)
  \/ /\ game.wave <= ScoreMaxWave
     /\ \E flight \in ScoreFlights : GameUpdate(2, PlayerHome, 0, 0, flight)
  \/ DelayFrame(2, FALSE)
  \/ /\ game.state = "WAVE_COMPLETE"
     /\ \E plan \in {PlanTop} : TuneFrame(2, plan)

SpecScore == Init /\ [][NextScore]_vars

\* the points of the aliens of als that are dead
RECURSIVE PointsOfDead(_, _)
PointsOfDead(als, ids) ==
  IF ids = {} THEN 0
  ELSE LET i == CHOOSE x \in ids : TRUE
       IN (IF als[i].alive THEN 0 ELSE AlienPoints(i)) + PointsOfDead(als, ids \ {i})

\* C37: an alien is recorded in alienHits at most once over a wave, also
\* when several player projectiles overlap it in the same checkAll call:
\* every recorded alien was alive before the call and is dead after it, and
\* no two records of a call name the same alien; so the score gained during
\* a wave is the sum of the points of the aliens that went from alive to
\* dead in it
C37_ScoredOncePerAlien ==
  /\ [](game.score = (game.wave - 1) * PointsOfDead([i \in AlienIds |-> [alive |-> FALSE]],
                                                    AlienIds)
                        + PointsOfDead(aliens, AlienIds))
  /\ [][lastOp'.op \in {"frame", "intro"} =>
         LET hits == lastOp'.collision.result.alienHits
         IN /\ \A j \in DOMAIN hits :
                 /\ aliens[hits[j].alien].alive
                 /\ ~aliens'[hits[j].alien].alive
                 /\ hits[j].points = AlienPoints(hits[j].alien)
            /\ \A j, n \in DOMAIN hits : hits[j].alien = hits[n].alien => j = n
            /\ game'.score = game.score + PointsOf(hits)]_vars

\* two player shots on one alien in a frame: one record, and the other shot
\* flies on
C37_Witness ==
  /\ lastOp.op = "frame"
  /\ Len(lastOp.collision.projectiles) = 2
  /\ lastOp.collision.projectiles[1] = lastOp.collision.projectiles[2]
  /\ Len(lastOp.collision.result.alienHits) = 1
  /\ game.projectiles = <<"player">>
  /\ game.score > 0

\* the second wave is under way with the whole first wave in the score
C37_SecondWave ==
  /\ game.wave = 2
  /\ game.state = "PLAYING"
  /\ game.score > PointsOfDead([i \in AlienIds |-> [alive |-> FALSE]], AlienIds)


\* ---------------------------------------------------------------------------
\* the barrier's bounding box against the reach of its cells: checkAll and
\* checkHit called with projectiles beside the outermost cells of barrier 1
\* ---------------------------------------------------------------------------
\* the cells of the third row that stand furthest right and furthest left
RightCell ==
  CHOOSE c \in CellIds :
    /\ HexGrid[c].y = 2
    /\ \A d \in CellIds : LocalX(HexGrid[d]) <= LocalX(HexGrid[c])
LeftCell ==
  CHOOSE c \in CellIds :
    /\ HexGrid[c].y = 2
    /\ \A d \in CellIds : LocalX(HexGrid[d]) >= LocalX(HexGrid[c])

\* 4 units right of the right cell, 2.5 units right of it, 4.5 units left of
\* the left cell
EdgePoint   == [CellPos(1, RightCell) EXCEPT !.x = @ + 40]
InsidePoint == [CellPos(1, RightCell) EXCEPT !.x = @ + 25]
LeftPoint   == [CellPos(1, LeftCell) EXCEPT !.x = @ - 45]
EdgePointSet == {EdgePoint, InsidePoint, LeftPoint}

NextEdge ==
  \/ \E type \in {"player", "alien"}, pos \in EdgePointSet :
       CheckCollisions(<<[type |-> type, pos |-> pos]>>, PlayerHome)
  \/ \E point \in EdgePointSet, radius \in {PlayerRadius, AlienRadius},
        damage \in {AlienShotDamage, PlayerShotDamage} :
       ShieldCheckHit(1, point, radius, damage)

SpecEdge == InitShield /\ [][NextEdge]_vars

\* points around barrier 1: a lattice of 1 unit in x and y that reaches 7
\* units beyond the box, in the plane of the cells and 4 and 5 units before
\* and behind it
C39_Lattice ==
  {Vec(ShieldPosition(1).x * Tenths + x * Tenths,
       ShieldPosition(1).y * Tenths + y * Tenths,
       ShieldPosition(1).z * Tenths + z) :
     x \in -(ShieldWidth \div 2 + 2 * HexRadius + 7) .. (ShieldWidth \div 2 + 2 * HexRadius + 7),
     y \in -(2 * HexRadius + 7) .. (ShieldHeight + 2 * HexRadius + 7),
     z \in {-50, -40, 0, 40, 50}}

\* C39: the bounding-box test is conservative with respect to the cell
\* search: every point within the hit threshold (hexRadius * 1.5 + the
\* projectile's radius) of an alive cell is inside getBoundingBox, so that
\* the resolver skips no projectile that checkHit would report as a hit
C39_BoxConservative ==
  /\ lastOp.op = "new" =>
       \A p \in C39_Lattice, radius \in {PlayerRadius, AlienRadius} :
         ClosestCell(shields[1], 1, p, radius) # 0 => InBoundingBox(1, p)
  /\ (lastOp.op = "checkAll" /\ lastOp.collision.result.shieldHits = <<>>)
       => \A s \in ShieldIds :
            ClosestCell(shields[s], s, lastOp.collision.projectiles[1].pos,
                        ProjectileRadius(lastOp.collision.projectiles[1].type)) = 0

\* checkAll has let a projectile pass that is within the threshold of an
\* alive cell of barrier 1, right of the box
C39_Skipped ==
  /\ lastOp.op = "checkAll"
  /\ lastOp.collision.projectiles[1].pos = EdgePoint
  /\ lastOp.collision.result.shieldHits = <<>>
  /\ lastOp.collision.result.destroyedProjectiles = <<>>
  /\ ~InBoundingBox(1, EdgePoint)
  /\ ClosestCell(shields[1], 1, EdgePoint,
                 ProjectileRadius(lastOp.collision.projectiles[1].type)) = RightCell

\* checkHit, called with the same point, reports the hit
C39_CheckHitReports ==
  /\ lastOp.op = "checkHit"
  /\ lastOp.hit.point = EdgePoint
  /\ lastOp.hit.hit
  /\ lastOp.hit.cell = RightCell

\* what holds: the box is conservative on the left, below, above, before and
\* behind, and on the right for every cell but the outermost ones (looked at
\* on the whole barrier: cells only die, and a dead cell is in reach of
\* nothing)
C39_ConservativeButRight ==
  lastOp.op = "new" =>
  \A p \in C39_Lattice, radius \in {PlayerRadius, AlienRadius} :
    ClosestCell(shields[1], 1, p, radius) # 0 =>
      \/ InBoundingBox(1, p)
      \/ /\ InBoundingBox(1, [p EXCEPT !.x = CellPos(1, RightCell).x])
         /\ p.x > CellPos(1, RightCell).x + 2 * HexRadius * Tenths - HexRadius * Tenths
         /\ LocalX(HexGrid[ClosestCell(shields[1], 1, p, radius)])
              = LocalX(HexGrid[RightCell])


\* ---------------------------------------------------------------------------
\* the invasion: a wave played with no alien shot and the player never hit,
\* frame after frame
\* ---------------------------------------------------------------------------
InvasionStartSet == {<<1, Lives, HitsPerLife, 0>>, <<5, 1, 1, 600>>, <<100, Lives, HitsPerLife, 1200>>}

\* one frame with dt = 0.1 s, the player standing at home and shooting
\* nothing: Game.update while PLAYING, updateLanding during the landing
InvasionFrame ==
  \/ game.gameTime < InvasionMaxTicks /\ GameUpdate(2, PlayerHome, 0, 0, <<>>)
  \/ landingElapsedTime < LandingMaxTicks /\ LandingFrame(2)

NextInvasion == InvasionFrame

\* the two clocks of these frames
invasionClocks == <<game, landingElapsedTime>>

\* what every frame of play and of the landing does to Game and to the
\* landing clock, whatever it does to the formation: a PLAYING frame adds dt
\* to gameTime, and leaves the state PLAYING or starts the landing with its
\* clock at 0; a landing frame adds dt to landingElapsedTime, and leaves the
\* state or ends the game
InvasionClock ==
  \/ /\ game.state = "PLAYING"
     /\ game.gameTime < InvasionMaxTicks
     /\ \/ /\ game' = [game EXCEPT !.gameTime = @ + 2]
           /\ landingElapsedTime' = landingElapsedTime
        \/ /\ game' = [game EXCEPT !.gameTime = @ + 2, !.state = "INVASION_LANDING",
                                     !.projectiles = <<>>]
           /\ landingElapsedTime' = 0
  \/ /\ game.state = "INVASION_LANDING"
     /\ landingElapsedTime < LandingMaxTicks
     /\ landingElapsedTime' = landingElapsedTime + 2
     /\ \/ game' = game
        \/ game' = [game EXCEPT !.state = "GAME_OVER", !.projectiles = <<>>]

\* animate keeps being called with dt > 0: the clock of the state the game
\* is in does not stand still for ever
SpecInvasion ==
  /\ \E start \in InvasionStartSet :
       InitPlaying(start[1], start[2], start[3], start[4])
  /\ [][NextInvasion]_vars
  /\ WF_invasionClocks(InvasionClock)

\* C40: with no alien killed and the player never hit, play leads to the
\* formation over the danger line and the state INVASION_LANDING, and the
\* landing leads to GAME_OVER, as long as frames keep coming; every frame on
\* the way is one that moves its clock
C40_InvasionEnds ==
  /\ [][InvasionClock]_vars
  /\ (game.state = "PLAYING")
       ~> (game.state = "INVASION_LANDING" /\ landingActive /\ HasReachedDangerZone(aliens))
  /\ (game.state = "INVASION_LANDING") ~> (game.state = "GAME_OVER")

\* the game is over after the landing of a formation that lost no alien, with
\* the player's lives and health untouched
C40_Witness ==
  /\ game.state = "GAME_OVER"
  /\ lastOp.op = "landing"
  /\ AliveIds(aliens) = AlienIds
  /\ game.lives = Lives
  /\ game.currentHealth = HitsPerLife

====
